---- MODULE Spec2Model ----
(***************************************************************************)
(* State-machine model of the casework_vis clustering / annotation code.   *)
(*                                                                         *)
(*   Spec          src/2_5_testing.py: main() and the functions it calls   *)
(*   SpecQuality   src/2_5_testing.py: assess_cluster_quality on its own   *)
(*   SpecClassify  src/categorize_summaries.py: classify_clusters and      *)
(*                 classify_cluster_with_gpt                               *)
(*                                                                         *)
(* Text is modelled as a sequence of tokens (a token is one character such *)
(* as " " or ":" or an unbroken word), so that strip(), the test           *)
(* '": " in name' and f-string concatenation are computed, not assumed.    *)
(* The external libraries (UMAP, KMeans, HDBSCAN, the OpenAI client) are   *)
(* nondeterministic choices over the results their contracts allow.        *)
(***************************************************************************)
EXTENDS Integers, Sequences, FiniteSets, TLC

VARIABLES
    \* ---- src/2_5_testing.py ----
    pc,                 \* position of main()
    data,               \* the loaded documents (a sequence of document names)
    n_embeddings,       \* len(embeddings) as loaded from the NPZ file
    size_args,          \* the n_fine / n_mid arguments hybrid_clustering_with_quality got
    n_fine, n_mid,      \* cluster counts used by hybrid_clustering_with_quality
    labels_fine,        \* K-Means level 1 label per point
    labels_mid,         \* mid label per point
    hdbscan_labels,     \* HDBSCAN label per point
    cluster_quality,    \* fine label -> quality record
    fine_to_mid,        \* fine label -> set of mid labels
    idx,                \* loop index inside the running annotation function
    mid_to_category,    \* mid label -> <<category_num, category_name>>
    cluster_names_mid,  \* mid label -> name
    cluster_names_fine, \* fine label -> name
    last_call,          \* the latest annotator call and its outcome
    calls,              \* the annotator calls made so far: [fn, label, sample]
    output,             \* contents of OUTPUT_JSON (<<>> while not written)
    \* ---- assess_cluster_quality applied to drawn label arrays ----
    q_in,               \* the drawn (kmeans_labels, hdbscan_labels)
    q_out,              \* the returned cluster_quality
    \* ---- src/misc/silh.py and src/hdbscan_subclass.py ----
    s_pc,               \* position of the running script's main()
    s_docs,             \* silh.py: obj["documents"]; hdbscan_subclass.py: the points
    s_labels,           \* hdbscan_subclass.py: the labels run_hdbscan returned
    s_sil,              \* the silhouette values returned so far, by variable name
    s_metric,           \* the label arrays silhouette_score was called with
    \* ---- src/categorize_summaries.py ----
    c_pc,               \* position of classify_clusters / classify_cluster_with_gpt
    c_data,             \* the input file: sequence of [name, is_list, n]
    out_file,           \* OUTPUT_FILE_PATH: <<>> when absent, else <<contents>>
    tmp_file,           \* OUTPUT_FILE_PATH.tmp, same encoding
    results,            \* the results dict of classify_clusters
    c_idx,              \* position in data.items()
    max_retries,        \* MAX_RETRIES (read from the environment at import)
    attempt,            \* loop variable of classify_cluster_with_gpt
    backoff,            \* backoff of classify_cluster_with_gpt
    sleeps,             \* the time.sleep() arguments of the running call
    n_calls,            \* annotator calls made by the running call
    cls,                \* the record returned by classify_cluster_with_gpt
    run,                \* number of the current run of the script
    file_at_start,      \* out_file as it was when the current run started
    last_reply,         \* outcome of the latest annotator call of the running call
    called,             \* cluster names the annotator was called for in this run
    \* ---- src/merge_embeddings.py ----
    m_pc,               \* position of main()
    full_labels,        \* labels of the full file (line 74: normalised)
    recl_labels,        \* labels of the re-clustered file (line 75: normalised)
    mapped_re_labels,   \* first result of remap_labels_away_from
    remap,              \* second result: key -> new label
    \* ---- src/categorize_problem_cluster_cases.py ----
    t_pc,               \* position of main()
    cases,              \* the titles of the input, in order
    t_idx,              \* index of the title being classified
    request,            \* which get_raw_response call of classify_text runs
    t_attempt,          \* "attempt" of the running get_raw_response
    t_calls,            \* annotator calls issued by the running get_raw_response
    t_sleeps,           \* its time.sleep() arguments
    case_to_categories  \* title -> result or error

pvars == <<pc, data, n_embeddings, size_args, n_fine, n_mid, labels_fine, labels_mid,
           hdbscan_labels, cluster_quality, fine_to_mid, idx, mid_to_category,
           cluster_names_mid, cluster_names_fine, last_call, calls,
           output>>
qvars == <<q_in, q_out>>
svars == <<s_pc, s_docs, s_labels, s_sil, s_metric>>
cvars == <<c_pc, c_data, out_file, tmp_file, results, c_idx, max_retries,
           attempt, backoff, sleeps, n_calls, cls, run, file_at_start,
           last_reply, called>>
mvars == <<m_pc, full_labels, recl_labels, mapped_re_labels, remap>>
tvars == <<t_pc, cases, t_idx, request, t_attempt, t_calls, t_sleeps,
           case_to_categories>>
vars == <<pvars, qvars, svars, cvars, mvars, tvars>>

----------------------------------------------------------------------------
(* Bounds of the model *)

MaxDocs == 2
MaxQPoints == 15
MaxClusters == 2
MaxRetriesCfg == 6
MaxRuns == 2

----------------------------------------------------------------------------
(* Python values and text *)

Min(a, b) == IF a < b THEN a ELSE b
Max(a, b) == IF a > b THEN a ELSE b

\* an absent optional argument / a None value, and a present one
None == <<>>
Some(v) == <<v>>

EmptyDict == <<>>
DictPut(d, k, v) == [x \in (DOMAIN d) \cup {k} |-> IF x = k THEN v ELSE d[x]]
DictGet(d, k, default) == IF k \in DOMAIN d THEN d[k] ELSE default

Whitespace == {" ", "\n"}
Quotes == {"\"", "'"}

RECURSIVE LStripChars(_, _)
LStripChars(s, chars) ==
    IF s # <<>> /\ Head(s) \in chars THEN LStripChars(Tail(s), chars) ELSE s

RECURSIVE RStripChars(_, _)
RStripChars(s, chars) ==
    IF s # <<>> /\ s[Len(s)] \in chars
    THEN RStripChars(SubSeq(s, 1, Len(s) - 1), chars) ELSE s

\* str.strip(chars); str.strip() is StripChars(s, Whitespace)
StripChars(s, chars) == RStripChars(LStripChars(s, chars), chars)

\* sub in s
Contains(s, sub) ==
    \E i \in 1..(Len(s) - Len(sub) + 1) : SubSeq(s, i, i + Len(sub) - 1) = sub

\* s.endswith(suf)
EndsWith(s, suf) ==
    Len(suf) <= Len(s) /\ SubSeq(s, Len(s) - Len(suf) + 1, Len(s)) = suf

DigitTokens == <<"0", "1", "2", "3", "4", "5", "6", "7", "8", "9">>

\* str(n) for the small non-negative integers used as cluster labels
Str(n) == DigitTokens[n + 1]

\* sorted(set) as a sequence (np.unique)
RECURSIVE SortedSeq(_)
SortedSeq(S) ==
    IF S = {} THEN <<>>
    ELSE LET m == CHOOSE x \in S : \A y \in S : x <= y
         IN <<m>> \o SortedSeq(S \ {m})

Range(f) == {f[i] : i \in DOMAIN f}

\* np.unique(labels)
Unique(labels) == SortedSeq(Range(labels))

\* [j for j, l in enumerate(labels) if l == label], as point indices in order
RECURSIVE IndicesOf(_, _, _)
IndicesOf(labels, label, from) ==
    IF from > Len(labels) THEN <<>>
    ELSE (IF labels[from] = label THEN <<from>> ELSE <<>>)
         \o IndicesOf(labels, label, from + 1)

----------------------------------------------------------------------------
(* src/2_5_testing.py: constants *)

Noise == -1

CATEGORY_NAMES ==
    <<  <<"Antitrust">>, <<"IP Law">>, <<"Privacy and Data Protection">>,
        <<"Tort">>, <<"Justice and Equity">>, <<"Consumer Protection">>,
        <<"AI in Legal Proceedings">>, <<"Unrelated">>  >>

Unrelated == <<8, <<"Unrelated">>>>

\* documents of one cluster handed to the annotator: cluster_docs[:20]
SampleCap == 20

----------------------------------------------------------------------------
(* hybrid_clustering_with_quality: cluster counts and the two K-Means passes *)

\* the explicit n_fine / n_mid a caller may pass; None selects auto-sizing
NFineArgs == {None, Some(1), Some(2)}
NMidArgs == {None, Some(1), Some(2)}

\* variant: the upper clamp left out
AutoNFineNoCeiling(n_docs) == Max(n_docs \div 8, 40)

AutoNFine(n_docs) == Min(Max(n_docs \div 8, 40), 100)
\* variant: the mid count clamped with the bounds of the fine count
AutoNMidFineBounds(n_docs) == Min(Max(n_docs \div 25, 40), 100)

AutoNMid(n_docs) == Min(Max(n_docs \div 25, 15), 30)

ChooseNFine(arg, n_docs) == IF arg = None THEN AutoNFine(n_docs) ELSE arg[1]
ChooseNMid(arg, n_docs) == IF arg = None THEN AutoNMid(n_docs) ELSE arg[1]

\* KMeans(n_clusters=k).fit_predict on n_points points: one label in [0, k) per
\* point; sklearn raises ValueError when n_points < k
KMeansFails(n_points, k) == n_points < k
KMeansLabels(n_points, k) == [1..n_points -> 0..(k - 1)]

\* labels_mid = [labels_mid_centroids[label] for label in labels_fine]
\* (labels_mid_centroids is held as a sequence: centroid k at position k + 1)
\* variant: the lookup indexed by the point's position, not by its fine label
LabelsMidByPoint(lf, lmc) == [i \in DOMAIN lf |-> lmc[((i - 1) % Len(lmc)) + 1]]
LabelsMid(lf, lmc) == [i \in DOMAIN lf |-> lmc[lf[i] + 1]]

\* HDBSCAN.fit_predict: a non-negative cluster id or the noise label per point
HdbscanIds == {Noise, 0}
HdbscanLabels(n_points) == [1..n_points -> HdbscanIds]

----------------------------------------------------------------------------
(* assess_cluster_quality *)

\* noise_ratio = n_noise / points_in_cluster, kept exact as a fraction
Ratio(n, d) == [num |-> n, den |-> d]
\* r < a/b for positive denominators
RatioLt(r, a, b) == r.num * b < a * r.den
RatioLe(r, a, b) == r.num * b <= a * r.den

\* variant: both thresholds inclusive (<= 0.3, <= 0.6)
QualityTierInclusive(noise_ratio, n_sub) ==
    IF RatioLe(noise_ratio, 3, 10) /\ n_sub >= 1
        THEN [quality |-> "high", quality_score |-> "1.0"]
    ELSE IF RatioLe(noise_ratio, 6, 10)
        THEN [quality |-> "medium", quality_score |-> "0.5"]
    ELSE [quality |-> "low", quality_score |-> "0.2"]

\* variant: "high" asking for two HDBSCAN clusters
QualityTierTwoSubclusters(noise_ratio, n_sub) ==
    IF RatioLt(noise_ratio, 3, 10) /\ n_sub >= 2
        THEN [quality |-> "high", quality_score |-> "1.0"]
    ELSE IF RatioLt(noise_ratio, 6, 10)
        THEN [quality |-> "medium", quality_score |-> "0.5"]
    ELSE [quality |-> "low", quality_score |-> "0.2"]

QualityTier(noise_ratio, n_sub) ==
    IF RatioLt(noise_ratio, 3, 10) /\ n_sub >= 1
        THEN [quality |-> "high", quality_score |-> "1.0"]
    ELSE IF RatioLt(noise_ratio, 6, 10)
        THEN [quality |-> "medium", quality_score |-> "0.5"]
    ELSE [quality |-> "low", quality_score |-> "0.2"]

\* variant: the noise counted over every point, not over the cluster's mask
ClusterQualityOfAllNoise(kmeans_labels, hdb_labels, k_label) ==
    LET mask == {i \in DOMAIN kmeans_labels : kmeans_labels[i] = k_label}
        points_in_cluster == Cardinality(mask)
        n_noise == Cardinality({i \in DOMAIN hdb_labels : hdb_labels[i] = Noise})
        noise_ratio == Ratio(n_noise, points_in_cluster)
        hdbscan_clusters_present == {hdb_labels[i] : i \in mask} \ {Noise}
        n_hdbscan_subclusters == Cardinality(hdbscan_clusters_present)
        tier == QualityTier(noise_ratio, n_hdbscan_subclusters)
    IN  [quality |-> tier.quality,
         quality_score |-> tier.quality_score,
         noise_ratio |-> noise_ratio,
         n_hdbscan_subclusters |-> n_hdbscan_subclusters,
         size |-> points_in_cluster]

ClusterQualityOf(kmeans_labels, hdb_labels, k_label) ==
    LET mask == {i \in DOMAIN kmeans_labels : kmeans_labels[i] = k_label}
        points_in_cluster == Cardinality(mask)
        n_noise == Cardinality({i \in mask : hdb_labels[i] = Noise})
        noise_ratio == Ratio(n_noise, points_in_cluster)
        hdbscan_clusters_present == {hdb_labels[i] : i \in mask} \ {Noise}
        n_hdbscan_subclusters == Cardinality(hdbscan_clusters_present)
        tier == QualityTier(noise_ratio, n_hdbscan_subclusters)
    IN  [quality |-> tier.quality,
         quality_score |-> tier.quality_score,
         noise_ratio |-> noise_ratio,
         n_hdbscan_subclusters |-> n_hdbscan_subclusters,
         size |-> points_in_cluster]

AssessClusterQuality(kmeans_labels, hdb_labels) ==
    [k_label \in Range(kmeans_labels) |->
        ClusterQualityOf(kmeans_labels, hdb_labels, k_label)]

----------------------------------------------------------------------------
(* analyze_hierarchy *)

AnalyzeHierarchy(lf, lm) ==
    [fine \in Range(lf) |-> {lm[i] : i \in {j \in DOMAIN lf : lf[j] = fine}}]

----------------------------------------------------------------------------
(* The annotator (client.chat.completions.create) as seen by the callers:   *)
(* the call raises, or returns message.content                              *)

Raised == [raised |-> TRUE, content |-> <<>>]
Returned(c) == [raised |-> FALSE, content |-> c]

\* replies to the category prompt
CategoryContents == {<<"2">>, <<" ", "8", "\n">>, <<"9">>, <<"w">>}
\* replies to the naming prompts
NameContents == {<<>>, <<"\"", "\"">>, <<"w">>, <<"w", ":", " ", "Tort">>}

CategoryOutcomes == {Raised} \cup {Returned(c) : c \in CategoryContents}
NameOutcomes == {Raised} \cup {Returned(c) : c \in NameContents}

\* int(text): surrounding whitespace ignored, an optional sign, then digits;
\* anything else raises ValueError
IsDigit(t) == \E d \in 1..10 : DigitTokens[d] = t
DigitValue(t) == (CHOOSE d \in 1..10 : DigitTokens[d] = t) - 1

RECURSIVE DigitsValue(_, _)
DigitsValue(s, acc) ==
    IF s = <<>> THEN acc ELSE DigitsValue(Tail(s), 10 * acc + DigitValue(Head(s)))

ParseInt(text) ==
    LET t == StripChars(text, Whitespace)
        signed == t # <<>> /\ Head(t) \in {"-", "+"}
        digits == IF signed THEN Tail(t) ELSE t
        ok == digits # <<>> /\ \A i \in 1..Len(digits) : IsDigit(digits[i])
        magnitude == IF ok THEN DigitsValue(digits, 0) ELSE 0
    IN  [ok |-> ok,
         value |-> IF signed /\ Head(t) = "-" THEN 0 - magnitude ELSE magnitude]

\* variant: every document of the cluster, without the [:20] slice
SampleUncapped(labels, label) == IndicesOf(labels, label, 1)

\* cluster_docs[:20] of the cluster with this label
Sample(labels, label) ==
    LET cluster_docs == IndicesOf(labels, label, 1)
    IN  SubSeq(cluster_docs, 1, Min(Len(cluster_docs), SampleCap))

----------------------------------------------------------------------------
(* classify_mid_topics_into_categories: the entry recorded for one mid topic *)

CategoryNameOf(category_num) ==
    IF category_num \in DOMAIN CATEGORY_NAMES
    THEN CATEGORY_NAMES[category_num] ELSE <<"Unknown">>

CategoryEntry(outcome) ==
    IF outcome.raised THEN Unrelated
    ELSE LET parsed == ParseInt(StripChars(outcome.content, Whitespace))
         IN  IF parsed.ok
             THEN <<parsed.value, CategoryNameOf(parsed.value)>>
             ELSE Unrelated

(* generate_category_aware_mid_names: the name recorded for one mid topic *)

MidFallbackName(mid_label, category_name) ==
    <<"Topic", " ", Str(mid_label), ":", " ">> \o category_name

MidNameEntry(mid_label, category, outcome) ==
    LET category_name == category[2]
    IN  IF outcome.raised THEN MidFallbackName(mid_label, category_name)
        ELSE LET name == StripChars(StripChars(outcome.content, Whitespace), Quotes)
             IN  IF ~Contains(name, <<":", " ">>)
                 THEN name \o <<":", " ">> \o category_name
                 ELSE name

(* generate_cluster_names: the name recorded for one cluster *)

FallbackName(level_name, label) == <<level_name, " ", Str(label)>>

FineNameEntry(level_name, label, outcome) ==
    IF outcome.raised THEN FallbackName(level_name, label)
    ELSE StripChars(StripChars(outcome.content, Whitespace), Quotes)

----------------------------------------------------------------------------
(* The dictionaries the three annotation loops fill, one key per iteration *)

\* variant: the except branch starting the dictionary afresh
RecordCategoryOrReset(d, mid_label, outcome) ==
    IF outcome.raised THEN DictPut(EmptyDict, mid_label, Unrelated)
    ELSE DictPut(d, mid_label, CategoryEntry(outcome))

RecordCategory(d, mid_label, outcome) ==
    DictPut(d, mid_label, CategoryEntry(outcome))

RecordMidName(d, mid_label, category, outcome) ==
    DictPut(d, mid_label, MidNameEntry(mid_label, category, outcome))

\* variant: no entry stored when the call raised
RecordFineNameUnlessRaised(d, level_name, label, outcome) ==
    IF outcome.raised THEN d
    ELSE DictPut(d, label, FineNameEntry(level_name, label, outcome))

RecordFineName(d, level_name, label, outcome) ==
    DictPut(d, label, FineNameEntry(level_name, label, outcome))

----------------------------------------------------------------------------
(* save_processed_data *)

\* variant: the entry taking its fine label from the HDBSCAN labels
DocumentHdbscanAsFine(d, i, lf, lm, m2c, hl, cq, names_fine, names_mid) ==
    LET fine_label == hl[i]
        mid_label == lm[i]
        quality_info == DictGet(cq, fine_label, EmptyDict)
    IN  [name |-> d,
         fine_cluster |-> fine_label,
         fine_cluster_name |->
            DictGet(names_fine, fine_label, <<"Cluster", " ", "?">>),
         mid_cluster |-> mid_label,
         mid_cluster_name |->
            DictGet(names_mid, mid_label, <<"Topic", " ", Str(mid_label)>>),
         legal_category |-> m2c[mid_label][1],
         legal_category_name |-> m2c[mid_label][2],
         cluster_quality |-> DictGet(quality_info, "quality", "unknown"),
         cluster_quality_score |-> DictGet(quality_info, "quality_score", "0.5"),
         hdbscan_cluster |-> hl[i],
         is_hdbscan_core |-> hl[i] # Noise]

\* variant: the category looked up under the fine label
DocumentCategoryOfFine(d, i, lf, lm, m2c, hl, cq, names_fine, names_mid) ==
    LET fine_label == lf[i]
        mid_label == lm[i]
        quality_info == DictGet(cq, fine_label, EmptyDict)
    IN  [name |-> d,
         fine_cluster |-> fine_label,
         fine_cluster_name |->
            DictGet(names_fine, fine_label, <<"Cluster", " ", Str(fine_label)>>),
         mid_cluster |-> mid_label,
         mid_cluster_name |->
            DictGet(names_mid, mid_label, <<"Topic", " ", Str(mid_label)>>),
         legal_category |-> DictGet(m2c, fine_label, Unrelated)[1],
         legal_category_name |-> DictGet(m2c, fine_label, Unrelated)[2],
         cluster_quality |-> DictGet(quality_info, "quality", "unknown"),
         cluster_quality_score |-> DictGet(quality_info, "quality_score", "0.5"),
         hdbscan_cluster |-> hl[i],
         is_hdbscan_core |-> hl[i] # Noise]

\* the entry appended to processed for document i
Document(d, i, lf, lm, m2c, hl, cq, names_fine, names_mid) ==
    LET fine_label == lf[i]
        mid_label == lm[i]
        quality_info == DictGet(cq, fine_label, EmptyDict)
    IN  [name |-> d,
         fine_cluster |-> fine_label,
         fine_cluster_name |->
            DictGet(names_fine, fine_label, <<"Cluster", " ", Str(fine_label)>>),
         mid_cluster |-> mid_label,
         mid_cluster_name |->
            DictGet(names_mid, mid_label, <<"Topic", " ", Str(mid_label)>>),
         legal_category |-> m2c[mid_label][1],
         legal_category_name |-> m2c[mid_label][2],
         cluster_quality |-> DictGet(quality_info, "quality", "unknown"),
         cluster_quality_score |-> DictGet(quality_info, "quality_score", "0.5"),
         hdbscan_cluster |-> hl[i],
         is_hdbscan_core |-> hl[i] # Noise]

\* variant: the loop starting at the second document
ProcessedSkipFirst(docs, lf, lm, m2c, hl, cq, names_fine, names_mid) ==
    [i \in 1..(Len(docs) - 1) |->
        Document(docs[i + 1], i + 1, lf, lm, m2c, hl, cq, names_fine, names_mid)]

\* processed: one entry per element of data, appended in iteration order
Processed(docs, lf, lm, m2c, hl, cq, names_fine, names_mid) ==
    [i \in 1..Len(docs) |->
        Document(docs[i], i, lf, lm, m2c, hl, cq, names_fine, names_mid)]

\* Counter(labels)[label]
CountOf(labels, label) == Cardinality({i \in DOMAIN labels : labels[i] = label})

\* variant: the size counted over the first document only
FineClusterEntryFirstOnly(fine_label, lf, cq, names_fine) ==
    [id |-> fine_label,
     name |-> DictGet(names_fine, fine_label, <<"Cluster", " ", Str(fine_label)>>),
     size |-> CountOf(SubSeq(lf, 1, 1), fine_label),
     quality |-> DictGet(DictGet(cq, fine_label, EmptyDict), "quality", "unknown"),
     quality_score |->
        DictGet(DictGet(cq, fine_label, EmptyDict), "quality_score", "0.5")]

FineClusterEntry(fine_label, lf, cq, names_fine) ==
    [id |-> fine_label,
     name |-> DictGet(names_fine, fine_label, <<"Cluster", " ", Str(fine_label)>>),
     size |-> CountOf(lf, fine_label),
     quality |-> DictGet(DictGet(cq, fine_label, EmptyDict), "quality", "unknown"),
     quality_score |->
        DictGet(DictGet(cq, fine_label, EmptyDict), "quality_score", "0.5")]

\* variant: every fine cluster listed under every mid topic
HierarchyEntryAllFine(mid_label, lf, lm, m2c, cq, names_fine, names_mid, f2m) ==
    LET fine_in_mid == SortedSeq(DOMAIN f2m)
    IN  [name |-> DictGet(names_mid, mid_label, <<"Topic", " ", Str(mid_label)>>),
         size |-> CountOf(lm, mid_label),
         legal_category |-> m2c[mid_label][1],
         legal_category_name |-> m2c[mid_label][2],
         fine_clusters |->
            [j \in 1..Len(fine_in_mid) |->
                FineClusterEntry(fine_in_mid[j], lf, cq, names_fine)]]

HierarchyEntry(mid_label, lf, lm, m2c, cq, names_fine, names_mid, f2m) ==
    LET fine_in_mid == SortedSeq({fine \in DOMAIN f2m : mid_label \in f2m[fine]})
    IN  [name |-> DictGet(names_mid, mid_label, <<"Topic", " ", Str(mid_label)>>),
         size |-> CountOf(lm, mid_label),
         legal_category |-> m2c[mid_label][1],
         legal_category_name |-> m2c[mid_label][2],
         fine_clusters |->
            [j \in 1..Len(fine_in_mid) |->
                FineClusterEntry(fine_in_mid[j], lf, cq, names_fine)]]

Hierarchy(lf, lm, m2c, cq, names_fine, names_mid, f2m) ==
    [mid_label \in Range(lm) |->
        HierarchyEntry(mid_label, lf, lm, m2c, cq, names_fine, names_mid, f2m)]

\* category_distribution: Counter of the category names of the mid topics
CategoryDistribution(lm, m2c) ==
    [cat_name \in {m2c[mid][2] : mid \in Range(lm)} |->
        Cardinality({mid \in Range(lm) : m2c[mid][2] = cat_name})]

OutputObject(docs, lf, lm, m2c, hl, cq, names_fine, names_mid, f2m) ==
    LET processed == Processed(docs, lf, lm, m2c, hl, cq, names_fine, names_mid)
    IN  [documents |-> processed,
         meta |->
            [n_documents |-> Len(processed),
             n_fine_clusters |-> Cardinality(DOMAIN names_fine),
             n_mid_topics |-> Cardinality(DOMAIN names_mid),
             cluster_names_fine |-> names_fine,
             cluster_names_mid |-> names_mid,
             legal_categories |-> CATEGORY_NAMES,
             category_distribution |-> CategoryDistribution(lm, m2c),
             mid_to_category |->
                [k \in DOMAIN m2c |-> [number |-> m2c[k][1], name |-> m2c[k][2]]],
             cluster_quality |-> cq,
             hierarchy |-> Hierarchy(lf, lm, m2c, cq, names_fine, names_mid, f2m)]]

----------------------------------------------------------------------------
(* Resting values of the parts a specification does not run *)

PipelineIdle ==
    /\ pc = "idle" /\ data = <<>> /\ n_embeddings = 0
    /\ size_args = None /\ n_fine = 0 /\ n_mid = 0
    /\ labels_fine = <<>> /\ labels_mid = <<>> /\ hdbscan_labels = <<>>
    /\ cluster_quality = EmptyDict /\ fine_to_mid = EmptyDict /\ idx = 0
    /\ mid_to_category = EmptyDict
    /\ cluster_names_mid = EmptyDict /\ cluster_names_fine = EmptyDict
    /\ last_call = None /\ calls = <<>> /\ output = None

QualityIdle == q_in = None /\ q_out = None

SilhouetteIdle ==
    /\ s_pc = "idle" /\ s_docs = <<>> /\ s_labels = <<>>
    /\ s_sil = EmptyDict /\ s_metric = <<>>

MergeIdle ==
    /\ m_pc = "idle" /\ full_labels = <<>> /\ recl_labels = <<>>
    /\ mapped_re_labels = <<>> /\ remap = EmptyDict

CasesIdle ==
    /\ t_pc = "idle" /\ cases = <<>> /\ t_idx = 0 /\ request = 0
    /\ t_attempt = 0 /\ t_calls = 0 /\ t_sleeps = <<>>
    /\ case_to_categories = EmptyDict

ClassifyIdle ==
    /\ c_pc = "idle" /\ c_data = <<>> /\ out_file = None /\ tmp_file = None
    /\ results = EmptyDict /\ c_idx = 0 /\ max_retries = 0
    /\ attempt = 0 /\ backoff = 0 /\ sleeps = <<>> /\ n_calls = 0
    /\ cls = None /\ run = 0 /\ file_at_start = None /\ called = {}
    /\ last_reply = None

----------------------------------------------------------------------------
(* src/2_5_testing.py: main() *)

Init ==
    /\ pc = "start"
    /\ \E n \in 0..MaxDocs : data = [i \in 1..n |-> i]
    /\ n_embeddings \in 0..MaxDocs
    /\ size_args = None /\ n_fine = 0 /\ n_mid = 0
    /\ labels_fine = <<>> /\ labels_mid = <<>> /\ hdbscan_labels = <<>>
    /\ cluster_quality = EmptyDict /\ fine_to_mid = EmptyDict /\ idx = 0
    /\ mid_to_category = EmptyDict
    /\ cluster_names_mid = EmptyDict /\ cluster_names_fine = EmptyDict
    /\ last_call = None /\ calls = <<>> /\ output = None
    /\ QualityIdle /\ SilhouetteIdle /\ ClassifyIdle
    /\ MergeIdle /\ CasesIdle

\* [1/7] load_data; "if not data: return"
LoadData ==
    /\ pc = "start"
    /\ pc' = IF data = <<>> THEN "returned" ELSE "load_embeddings"
    /\ UNCHANGED <<data, n_embeddings, size_args, n_fine, n_mid,
                   labels_fine, labels_mid,
                   hdbscan_labels, cluster_quality, fine_to_mid, idx,
                   mid_to_category, cluster_names_mid, cluster_names_fine,
                   last_call, calls, output, qvars, svars, cvars, mvars, tvars>>

\* [2/7] load_embeddings; "if len(embeddings) != len(data): return"
LoadEmbeddings ==
    /\ pc = "load_embeddings"
    /\ pc' = IF n_embeddings # Len(data) THEN "returned" ELSE "reduce"
    /\ UNCHANGED <<data, n_embeddings, size_args, n_fine, n_mid,
                   labels_fine, labels_mid,
                   hdbscan_labels, cluster_quality, fine_to_mid, idx,
                   mid_to_category, cluster_names_mid, cluster_names_fine,
                   last_call, calls, output, qvars, svars, cvars, mvars, tvars>>

\* [3/7] reduce_dimensions: one 2-D point per embedding
ReduceDimensions ==
    /\ pc = "reduce"
    /\ pc' = "hybrid"
    /\ UNCHANGED <<data, n_embeddings, size_args, n_fine, n_mid,
                   labels_fine, labels_mid,
                   hdbscan_labels, cluster_quality, fine_to_mid, idx,
                   mid_to_category, cluster_names_mid, cluster_names_fine,
                   last_call, calls, output, qvars, svars, cvars, mvars, tvars>>

\* [4/7] hybrid_clustering_with_quality(embeddings_2d, n_docs, n_fine, n_mid):
\* entry, cluster counts
HybridEnter ==
    /\ pc = "hybrid"
    /\ \E fine_arg \in NFineArgs, mid_arg \in NMidArgs :
        /\ size_args' = Some([n_fine |-> fine_arg, n_mid |-> mid_arg])
        /\ n_fine' = ChooseNFine(fine_arg, Len(data))
        /\ n_mid' = ChooseNMid(mid_arg, Len(data))
    /\ pc' = "kmeans_fine"
    /\ UNCHANGED <<data, n_embeddings, labels_fine, labels_mid,
                   hdbscan_labels, cluster_quality, fine_to_mid, idx,
                   mid_to_category, cluster_names_mid, cluster_names_fine,
                   last_call, calls, output, qvars, svars, cvars, mvars, tvars>>

\* K-Means level 1 on the points
KMeansFine ==
    /\ pc = "kmeans_fine"
    /\ IF KMeansFails(Len(data), n_fine)
       THEN pc' = "crashed" /\ UNCHANGED labels_fine
       ELSE /\ labels_fine' \in KMeansLabels(Len(data), n_fine)
            /\ pc' = "kmeans_mid"
    /\ UNCHANGED <<data, n_embeddings, size_args, n_fine, n_mid,
                   labels_mid,
                   hdbscan_labels, cluster_quality, fine_to_mid, idx,
                   mid_to_category, cluster_names_mid, cluster_names_fine,
                   last_call, calls, output, qvars, svars, cvars, mvars, tvars>>

\* K-Means level 2 on the n_fine centroids, then the per-point mid labels
KMeansMid ==
    /\ pc = "kmeans_mid"
    /\ IF KMeansFails(n_fine, n_mid)
       THEN pc' = "crashed" /\ UNCHANGED labels_mid
       ELSE /\ \E labels_mid_centroids \in KMeansLabels(n_fine, n_mid) :
                labels_mid' = LabelsMid(labels_fine, labels_mid_centroids)
            /\ pc' = "hdbscan"
    /\ UNCHANGED <<data, n_embeddings, size_args, n_fine, n_mid,
                   labels_fine,
                   hdbscan_labels, cluster_quality, fine_to_mid, idx,
                   mid_to_category, cluster_names_mid, cluster_names_fine,
                   last_call, calls, output, qvars, svars, cvars, mvars, tvars>>

\* variant: HDBSCAN run before the K-Means pass on the centroids
RunHdbscanBeforeMid ==
    /\ pc = "kmeans_mid"
    /\ hdbscan_labels = <<>>
    /\ hdbscan_labels' \in HdbscanLabels(Len(data))
    /\ pc' = pc
    /\ UNCHANGED <<data, n_embeddings, size_args, n_fine, n_mid,
                   labels_fine, labels_mid,
                   cluster_quality, fine_to_mid, idx,
                   mid_to_category, cluster_names_mid, cluster_names_fine,
                   last_call, calls, output, qvars, svars, cvars, mvars, tvars>>

\* HDBSCAN on the points
RunHdbscan ==
    /\ pc = "hdbscan"
    /\ hdbscan_labels' \in HdbscanLabels(Len(data))
    /\ pc' = "assess"
    /\ UNCHANGED <<data, n_embeddings, size_args, n_fine, n_mid,
                   labels_fine, labels_mid,
                   cluster_quality, fine_to_mid, idx,
                   mid_to_category, cluster_names_mid, cluster_names_fine,
                   last_call, calls, output, qvars, svars, cvars, mvars, tvars>>

\* cluster_quality = assess_cluster_quality(...); return
AssessQuality ==
    /\ pc = "assess"
    /\ cluster_quality' = AssessClusterQuality(labels_fine, hdbscan_labels)
    /\ pc' = "analyze"
    /\ UNCHANGED <<data, n_embeddings, size_args, n_fine, n_mid,
                   labels_fine, labels_mid,
                   hdbscan_labels, fine_to_mid, idx,
                   mid_to_category, cluster_names_mid, cluster_names_fine,
                   last_call, calls, output, qvars, svars, cvars, mvars, tvars>>

\* [5/7] fine_to_mid = analyze_hierarchy(labels_fine, labels_mid)
AnalyzeHierarchyStep ==
    /\ pc = "analyze"
    /\ fine_to_mid' = AnalyzeHierarchy(labels_fine, labels_mid)
    /\ pc' = "client"
    /\ UNCHANGED <<data, n_embeddings, size_args, n_fine, n_mid,
                   labels_fine, labels_mid,
                   hdbscan_labels, cluster_quality, idx,
                   mid_to_category, cluster_names_mid, cluster_names_fine,
                   last_call, calls, output, qvars, svars, cvars, mvars, tvars>>

\* [6/7] open("otherkey.txt") (raises when the file is missing); OpenAI(api_key)
OpenClient ==
    /\ pc = "client"
    /\ \E key_file_present \in BOOLEAN :
        IF key_file_present THEN pc' = "classify" /\ idx' = 1
        ELSE pc' = "crashed" /\ UNCHANGED idx
    /\ UNCHANGED <<data, n_embeddings, size_args, n_fine, n_mid,
                   labels_fine, labels_mid,
                   hdbscan_labels, cluster_quality, fine_to_mid,
                   mid_to_category, cluster_names_mid, cluster_names_fine,
                   last_call, calls, output, qvars, svars, cvars, mvars, tvars>>

Call(fn, labels, label, outcome) ==
    Some([fn |-> fn, label |-> label, sample |-> Sample(labels, label),
          outcome |-> outcome])

\* the request sent: which function asked, for which cluster, with which documents
Request(fn, labels, label) ==
    [fn |-> fn, label |-> label, sample |-> Sample(labels, label)]

\* classify_mid_topics_into_categories: one iteration of the loop over unique_mid
ClassifyMidTopic ==
    /\ pc = "classify"
    /\ LET unique_mid == Unique(labels_mid)
           mid_label == unique_mid[idx]
       IN  /\ \E outcome \in CategoryOutcomes :
                /\ mid_to_category' =
                        RecordCategory(mid_to_category, mid_label, outcome)
                /\ last_call' = Call("classify", labels_mid, mid_label, outcome)
           /\ calls' = Append(calls, Request("classify", labels_mid, mid_label))
           /\ IF idx = Len(unique_mid)
              THEN pc' = "name_mid" /\ idx' = 1
              ELSE pc' = pc /\ idx' = idx + 1
    /\ UNCHANGED <<data, n_embeddings, size_args, n_fine, n_mid,
                   labels_fine, labels_mid,
                   hdbscan_labels, cluster_quality, fine_to_mid,
                   cluster_names_mid, cluster_names_fine, output, qvars, svars,
                   cvars, mvars, tvars>>

\* generate_category_aware_mid_names: one iteration of the loop over unique_mid
NameMidTopic ==
    /\ pc = "name_mid"
    /\ LET unique_mid == Unique(labels_mid)
           mid_label == unique_mid[idx]
           category == DictGet(mid_to_category, mid_label, Unrelated)
       IN  /\ \E outcome \in NameOutcomes :
                /\ cluster_names_mid' =
                        RecordMidName(cluster_names_mid, mid_label, category, outcome)
                /\ last_call' = Call("name_mid", labels_mid, mid_label, outcome)
           /\ calls' = Append(calls, Request("name_mid", labels_mid, mid_label))
           /\ IF idx = Len(unique_mid)
              THEN pc' = "name_fine" /\ idx' = 1
              ELSE pc' = pc /\ idx' = idx + 1
    /\ UNCHANGED <<data, n_embeddings, size_args, n_fine, n_mid,
                   labels_fine, labels_mid,
                   hdbscan_labels, cluster_quality, fine_to_mid,
                   mid_to_category, cluster_names_fine, output, qvars, svars, cvars, mvars, tvars>>

\* generate_cluster_names(summaries, labels_fine, ..., level_name="Cluster"):
\* one iteration of the loop over unique_labels
NameFineCluster ==
    /\ pc = "name_fine"
    /\ LET unique_labels == Unique(labels_fine)
           label == unique_labels[idx]
       IN  /\ \E outcome \in NameOutcomes :
                /\ cluster_names_fine' =
                        RecordFineName(cluster_names_fine, "Cluster", label, outcome)
                /\ last_call' = Call("name_fine", labels_fine, label, outcome)
           /\ calls' = Append(calls, Request("name_fine", labels_fine, label))
           /\ IF idx = Len(unique_labels)
              THEN pc' = "save" /\ idx' = 0
              ELSE pc' = pc /\ idx' = idx + 1
    /\ UNCHANGED <<data, n_embeddings, size_args, n_fine, n_mid,
                   labels_fine, labels_mid,
                   hdbscan_labels, cluster_quality, fine_to_mid,
                   mid_to_category, cluster_names_mid, output, qvars, svars, cvars, mvars, tvars>>

\* [7/7] save_processed_data: build output_obj and json.dump it
SaveProcessedData ==
    /\ pc = "save"
    /\ output' = Some(OutputObject(data, labels_fine, labels_mid, mid_to_category,
                                   hdbscan_labels, cluster_quality,
                                   cluster_names_fine, cluster_names_mid,
                                   fine_to_mid))
    /\ pc' = "done"
    /\ UNCHANGED <<data, n_embeddings, size_args, n_fine, n_mid,
                   labels_fine, labels_mid,
                   hdbscan_labels, cluster_quality, fine_to_mid, idx,
                   mid_to_category, cluster_names_mid, cluster_names_fine,
                   last_call, calls, qvars, svars, cvars, mvars, tvars>>

Next ==
    \/ LoadData
    \/ LoadEmbeddings
    \/ ReduceDimensions
    \/ HybridEnter
    \/ KMeansFine
    \/ KMeansMid
    \/ RunHdbscan
    \/ AssessQuality
    \/ AnalyzeHierarchyStep
    \/ OpenClient
    \/ ClassifyMidTopic
    \/ NameMidTopic
    \/ NameFineCluster
    \/ SaveProcessedData

Spec == Init /\ [][Next]_vars

----------------------------------------------------------------------------
(* Properties of the pipeline (checked under Spec) *)

Documents == output[1].documents

\* C1: in hybrid_clustering_with_quality any two points that share a fine label
\* share the same mid label, and analyze_hierarchy finds exactly one mid label
\* for every fine label.
C1_NestingPurity ==
    /\ labels_mid # <<>> =>
        \A i, j \in DOMAIN labels_fine :
            labels_fine[i] = labels_fine[j] => labels_mid[i] = labels_mid[j]
    /\ \A fine \in DOMAIN fine_to_mid : Cardinality(fine_to_mid[fine]) = 1

C1_Witness ==
    /\ fine_to_mid # EmptyDict
    /\ n_fine = 2 /\ n_mid = 2
    /\ \E i, j \in DOMAIN labels_fine : i # j /\ labels_fine[i] = labels_fine[j]

\* C2: once save_processed_data has run, the persisted documents list has
\* exactly one entry per input document, in input order, and meta.n_documents
\* is the number of input documents.
C2_OneEntryPerDocument ==
    output # None =>
        /\ Len(Documents) = Len(data)
        /\ \A i \in 1..Len(data) : Documents[i].name = data[i]
        /\ output[1].meta.n_documents = Len(data)

C2_Witness == output # None /\ Len(data) = MaxDocs

\* C3: in the persisted output fine_cluster_name and mid_cluster_name of every
\* document are non-empty, whatever the annotator did.
C3_NamesNonEmpty ==
    output # None =>
        \A i \in 1..Len(Documents) :
            /\ Documents[i].fine_cluster_name # <<>>
            /\ Documents[i].mid_cluster_name # <<>>

\* C6: an annotator call that raises for one cluster does not abort the run;
\* that cluster gets the fallback ((8, "Unrelated"), "Topic <id>: <category>",
\* "Cluster <id>"), the loop goes on, and the step changes no other cluster's
\* entry in any of the three dictionaries; a call that returns records an
\* entry that depends on that cluster's reply alone.
C6_Step ==
    pc \in {"classify", "name_mid", "name_fine"} =>
        /\ pc' \in {"classify", "name_mid", "name_fine", "save"}
        /\ last_call' # None
        /\ LET c == last_call'[1]
               raised == c.outcome.raised
               text == StripChars(StripChars(c.outcome.content, Whitespace), Quotes)
               OthersKept(old, new) ==
                    \A k \in (DOMAIN old) \ {c.label} :
                        k \in DOMAIN new /\ new[k] = old[k]
           IN  /\ c.fn = pc
               /\ pc = "classify" =>
                    /\ OthersKept(mid_to_category, mid_to_category')
                    /\ DOMAIN mid_to_category' = (DOMAIN mid_to_category) \cup {c.label}
                    /\ raised => mid_to_category'[c.label] = <<8, <<"Unrelated">>>>
                    /\ cluster_names_mid' = cluster_names_mid
                    /\ cluster_names_fine' = cluster_names_fine
               /\ pc = "name_mid" =>
                    /\ OthersKept(cluster_names_mid, cluster_names_mid')
                    /\ DOMAIN cluster_names_mid' = (DOMAIN cluster_names_mid) \cup {c.label}
                    /\ raised =>
                        cluster_names_mid'[c.label] =
                            <<"Topic", " ", Str(c.label), ":", " ">>
                                \o mid_to_category[c.label][2]
                    /\ ~raised =>
                        cluster_names_mid'[c.label] \in
                            {text, text \o <<":", " ">> \o mid_to_category[c.label][2]}
                    /\ mid_to_category' = mid_to_category
                    /\ cluster_names_fine' = cluster_names_fine
               /\ pc = "name_fine" =>
                    /\ OthersKept(cluster_names_fine, cluster_names_fine')
                    /\ DOMAIN cluster_names_fine' = (DOMAIN cluster_names_fine) \cup {c.label}
                    /\ raised =>
                        cluster_names_fine'[c.label] = <<"Cluster", " ", Str(c.label)>>
                    /\ ~raised => cluster_names_fine'[c.label] = text
                    /\ mid_to_category' = mid_to_category
                    /\ cluster_names_mid' = cluster_names_mid

C6_FailureIsPerCluster == [][C6_Step]_vars

\* a call has just raised for the second mid topic while the first one's
\* entry is on record
C6_Witness ==
    /\ last_call # None
    /\ last_call[1].outcome.raised
    /\ last_call[1].fn = "classify"
    /\ Cardinality(DOMAIN mid_to_category) = 2
    /\ \E m \in DOMAIN mid_to_category : mid_to_category[m] # <<8, <<"Unrelated">>>>

\* C7: every name produced by generate_category_aware_mid_names ends with the
\* category name assigned to that mid cluster in mid_to_category.
C7_MidNameEndsWithCategory ==
    \A m \in DOMAIN cluster_names_mid :
        EndsWith(cluster_names_mid[m], mid_to_category[m][2])

\* C8: every category recorded in mid_to_category, and every legal_category /
\* legal_category_name written to the output, is a member of CATEGORY_NAMES.
InEnumeration(num, name) == num \in 1..8 /\ name = CATEGORY_NAMES[num]

C8_CategoryInEnumeration ==
    /\ \A m \in DOMAIN mid_to_category :
        InEnumeration(mid_to_category[m][1], mid_to_category[m][2])
    /\ output # None =>
        \A i \in 1..Len(Documents) :
            InEnumeration(Documents[i].legal_category,
                          Documents[i].legal_category_name)

\* C9: the noise label -1 never appears as a fine or mid label: every point
\* has one fine label in [0, n_fine) and one mid label in [0, n_mid), and the
\* fine_cluster / mid_cluster written to the output are non-negative,
\* whatever the density labels are.
C9_NoNoiseLabel ==
    /\ labels_fine # <<>> =>
        /\ DOMAIN labels_fine = 1..Len(data)
        /\ \A i \in DOMAIN labels_fine : labels_fine[i] \in 0..(n_fine - 1)
    /\ labels_mid # <<>> =>
        /\ DOMAIN labels_mid = 1..Len(data)
        /\ \A i \in DOMAIN labels_mid : labels_mid[i] \in 0..(n_mid - 1)
    /\ output # None =>
        \A i \in 1..Len(Documents) :
            /\ Documents[i].fine_cluster >= 0 /\ Documents[i].fine_cluster # Noise
            /\ Documents[i].mid_cluster >= 0 /\ Documents[i].mid_cluster # Noise
            /\ Documents[i].fine_cluster = labels_fine[i]
            /\ Documents[i].mid_cluster = labels_mid[i]

C9_Witness ==
    /\ output # None
    /\ \E i \in DOMAIN hdbscan_labels : hdbscan_labels[i] = Noise
    /\ \E i \in 1..Len(Documents) : Documents[i].hdbscan_cluster = Noise

----------------------------------------------------------------------------
(* assess_cluster_quality applied to drawn label arrays (SpecQuality).      *)
(* The arrays hold the points of K-Means cluster 0, then those of cluster   *)
(* 1; inside each cluster the noise points come first, then the points of   *)
(* HDBSCAN cluster 0, then those of HDBSCAN cluster 1.                      *)

Rep(v, n) == [i \in 1..n |-> v]

LabelArrays(a0, b0, c0, a1, b1, c1) ==
    [kmeans_labels |-> Rep(0, a0 + b0 + c0) \o Rep(1, a1 + b1 + c1),
     hdbscan_labels |-> Rep(Noise, a0) \o Rep(0, b0) \o Rep(1, c0)
                        \o Rep(Noise, a1) \o Rep(0, b1) \o Rep(1, c1)]

InitQuality ==
    /\ \E a0 \in 0..MaxQPoints :
       \E b0 \in 0..(MaxQPoints - a0) :
       \E c0 \in 0..(MaxQPoints - a0 - b0) :
       \E a1 \in 0..(MaxQPoints - a0 - b0 - c0) :
       \E b1 \in 0..(MaxQPoints - a0 - b0 - c0 - a1) :
       \E c1 \in 0..(MaxQPoints - a0 - b0 - c0 - a1 - b1) :
            /\ a0 + b0 + c0 + a1 + b1 + c1 >= 1
            /\ q_in = Some(LabelArrays(a0, b0, c0, a1, b1, c1))
    /\ q_out = None
    /\ PipelineIdle /\ SilhouetteIdle /\ ClassifyIdle
    /\ MergeIdle /\ CasesIdle

AssessDrawn ==
    /\ q_in # None /\ q_out = None
    /\ q_out' = Some(AssessClusterQuality(q_in[1].kmeans_labels,
                                          q_in[1].hdbscan_labels))
    /\ UNCHANGED <<q_in, pvars, svars, cvars, mvars, tvars>>

NextQuality == AssessDrawn

SpecQuality == InitQuality /\ [][NextQuality]_vars

\* C4: the tier and score assigned by assess_cluster_quality are decided by
\* (noise_ratio, n_subclusters) alone: noise_ratio < 0.3 and n_subclusters >= 1
\* gives ("high", 1.0); otherwise noise_ratio < 0.6 gives ("medium", 0.5);
\* otherwise ("low", 0.2); a ratio of exactly 0.3 is not "high" and a ratio of
\* exactly 0.6 is "low".
TierOf(q) == <<q.quality, q.quality_score>>

C4_TierByThresholds ==
    q_out # None =>
        \A k \in DOMAIN q_out[1] :
            LET q == q_out[1][k]
                below03 == 10 * q.noise_ratio.num < 3 * q.noise_ratio.den
                below06 == 10 * q.noise_ratio.num < 6 * q.noise_ratio.den
            IN  /\ (below03 /\ q.n_hdbscan_subclusters >= 1)
                        => TierOf(q) = <<"high", "1.0">>
                /\ (~(below03 /\ q.n_hdbscan_subclusters >= 1) /\ below06)
                        => TierOf(q) = <<"medium", "0.5">>
                /\ ~below06 => TierOf(q) = <<"low", "0.2">>

\* one cluster at noise_ratio = 0.3 exactly, the other at 0.6 exactly
C4_Witness ==
    /\ q_out # None
    /\ DOMAIN q_out[1] = {0, 1}
    /\ q_out[1][0].noise_ratio = Ratio(3, 10) /\ q_out[1][0].quality = "medium"
    /\ q_out[1][0].n_hdbscan_subclusters >= 1
    /\ q_out[1][1].noise_ratio = Ratio(3, 5) /\ q_out[1][1].quality = "low"

----------------------------------------------------------------------------
(* src/categorize_summaries.py: values *)

\* MAX_SUMMARIES_PER_CLUSTER (0: no limit)
MAX_SUMMARIES_PER_CLUSTER == 0

\* cap of the retry delay, in seconds
BackoffCap == 8

\* a JSON value of the reply: absent / null, a string, or a list of strings
Absent == [kind |-> "absent", v |-> <<>>]
JStr(text) == [kind |-> "str", v |-> text]
JList(items) == [kind |-> "list", v |-> items]

\* Python truthiness of such a value
Truthy(j) == j.kind # "absent" /\ j.v # <<>>

\* the parsed reply: json.loads(content) gave a dict with these keys
Reply(categories, category, primary, confidence) ==
    [json_ok |-> TRUE, categories |-> categories, category |-> category,
     primary |-> primary, confidence |-> confidence]

\* the call raised, or json.loads(content) raised
Failure == [json_ok |-> FALSE, categories |-> Absent, category |-> Absent,
            primary |-> Absent, confidence |-> "0.0"]

GptReplies ==
    { Reply(JList(<< <<"Tort">>, <<"IP Law">> >>), Absent, JStr(<<"IP Law">>), "0.9"),
      Reply(JStr(<<"Tort">>), Absent, Absent, "0.9"),
      Reply(Absent, Absent, Absent, "0.0") }

GptOutcomes == {Failure} \cup GptReplies

RECURSIVE Dedup(_, _)
\* the first loop of _enforce_two_categories: strip, drop empties and repeats
Dedup(categories, normed) ==
    IF categories = <<>> THEN normed
    ELSE LET c == StripChars(Head(categories), Whitespace)
         IN  IF c = <<>> \/ c \in Range(normed)
             THEN Dedup(Tail(categories), normed)
             ELSE Dedup(Tail(categories), Append(normed, c))

\* list.remove(x): drops the first occurrence
RECURSIVE Remove(_, _)
Remove(list, x) ==
    IF list = <<>> THEN <<>>
    ELSE IF Head(list) = x THEN Tail(list)
    ELSE <<Head(list)>> \o Remove(Tail(list), x)

\* variant: the primary put in front without being removed from the list
EnforceTwoCategoriesKeepPrimary(categories, primary) ==
    LET normed0 == Dedup(categories, <<>>)
        normed1 == IF normed0 = <<>> THEN << <<"Unrelated">> >> ELSE normed0
        p0 == StripChars(primary, Whitespace)
        p == IF p0 = <<>> THEN normed1[1] ELSE p0
        normed == <<p>> \o normed1
    IN  SubSeq(normed, 1, Min(Len(normed), 2))

EnforceTwoCategories(categories, primary) ==
    LET normed0 == Dedup(categories, <<>>)
        normed1 == IF normed0 = <<>> THEN << <<"Unrelated">> >> ELSE normed0
        p0 == StripChars(primary, Whitespace)
        p == IF p0 = <<>> THEN normed1[1] ELSE p0
        rest == IF p \in Range(normed1) THEN Remove(normed1, p) ELSE normed1
        normed == <<p>> \o rest
    IN  SubSeq(normed, 1, Min(Len(normed), 2))

\* used_summaries of a successful call
UsedSummaries(n) ==
    IF MAX_SUMMARIES_PER_CLUSTER # 0 /\ n > MAX_SUMMARIES_PER_CLUSTER
    THEN MAX_SUMMARIES_PER_CLUSTER ELSE n

\* lines 155-193: the record built from a parsed reply
RecordFromReply(reply, n_summaries) ==
    LET cats0 == IF reply.categories.kind = "str"
                 THEN JList(<<reply.categories.v>>) ELSE reply.categories
        cats1 == IF ~Truthy(cats0) \/ cats0.kind # "list"
                 THEN (IF reply.category.kind = "str" /\ reply.category.v # <<>>
                       THEN <<reply.category.v>> ELSE << <<"Unrelated">> >>)
                 ELSE cats0.v
        primary0 == IF reply.primary.kind # "str"
                       \/ StripChars(reply.primary.v, Whitespace) = <<>>
                    THEN cats1[1] ELSE reply.primary.v
        categories == EnforceTwoCategories(cats1, primary0)
        primary == categories[1]
        secondary == IF Len(categories) > 1 /\ categories[2] # primary
                     THEN Some(categories[2]) ELSE None
    IN  [categories |-> categories, primary |-> primary, secondary |-> secondary,
         confidence |-> reply.confidence, rationale |-> "from reply",
         total_summaries |-> n_summaries,
         used_summaries |-> UsedSummaries(n_summaries)]

\* lines 201-209: the record returned when every attempt failed
FallbackRecord(n_summaries) ==
    [categories |-> << <<"Unrelated">> >>, primary |-> <<"Unrelated">>,
     secondary |-> None, confidence |-> "0.0",
     rationale |-> "Classification failed after retries",
     total_summaries |-> n_summaries, used_summaries |-> n_summaries]

\* lines 240-267: the record classify_clusters stores for a returned cls
StoredRecord(c) ==
    LET cats0 == IF c.categories = <<>> THEN << <<"Unrelated">> >> ELSE c.categories
        p0 == StripChars(IF c.primary # <<>> THEN c.primary ELSE cats0[1], Whitespace)
        primary0 == IF p0 = <<>> THEN <<"Unrelated">> ELSE p0
        cats == EnforceTwoCategories(cats0, primary0)
        primary == cats[1]
        secondary == IF Len(cats) > 1 /\ cats[2] # primary THEN Some(cats[2])
                     ELSE IF Len(cats) = 1 THEN None
                     ELSE c.secondary
    IN  [categories |-> cats, primary |-> primary, secondary |-> secondary,
         confidence |-> c.confidence, rationale |-> c.rationale,
         total_summaries |-> c.total_summaries,
         used_summaries |-> c.used_summaries]

\* variant: the delay doubled without the cap
NextBackoffUncapped(b) == b * 2
\* backoff = min(backoff * 2, 8)
NextBackoff(b) == Min(b * 2, BackoffCap)

\* variant: a record of the fallback not counting as classified
AlreadyClassifiedUnlessFallback(res, cluster_name) ==
    /\ cluster_name \in DOMAIN res
    /\ res[cluster_name].rationale # "Classification failed after retries"

\* variant: the skip test never succeeding
AlwaysClassify(res, cluster_name) == FALSE
\* "if cluster_name in results and isinstance(results[cluster_name], dict)"
AlreadyClassified(res, cluster_name) == cluster_name \in DOMAIN res

----------------------------------------------------------------------------
(* src/categorize_summaries.py: classify_clusters and the script's main part *)

ClusterNameSeq == <<"A", "B", "C", "D">>
ClusterNames == {ClusterNameSeq[i] : i \in 1..Min(MaxClusters, Len(ClusterNameSeq))}

\* one item of the input dict: summaries is Some(length) for a list, None for
\* a value that is not a list
Items == [name : ClusterNames, summaries : {None, Some(1)}]

\* the input file: a JSON object, so its keys are distinct
DataFiles ==
    {d \in UNION {[1..n -> Items] : n \in 0..MaxClusters} :
        \A i, j \in DOMAIN d : i # j => d[i].name # d[j].name}

\* contents of a file on disk: complete JSON of obj, or a truncated write
FileOf(obj) == Some([complete |-> TRUE, obj |-> obj])
Truncated == Some([complete |-> FALSE, obj |-> EmptyDict])

\* lines 217-225: the existing results loaded from OUTPUT_FILE_PATH
LoadExisting(file) ==
    IF file = None THEN EmptyDict
    ELSE IF ~file[1].complete THEN EmptyDict
    ELSE file[1].obj

InitClassify ==
    /\ c_pc = "idle"
    /\ c_data \in DataFiles
    /\ max_retries \in 0..MaxRetriesCfg
    /\ out_file = None /\ tmp_file = None
    /\ results = EmptyDict /\ c_idx = 0
    /\ attempt = 0 /\ backoff = 0 /\ sleeps = <<>> /\ n_calls = 0
    /\ cls = None /\ run = 0 /\ file_at_start = None /\ called = {}
    /\ last_reply = None
    /\ PipelineIdle /\ QualityIdle /\ SilhouetteIdle
    /\ MergeIdle /\ CasesIdle

NoCall ==
    /\ attempt' = 0 /\ backoff' = 0 /\ sleeps' = <<>> /\ n_calls' = 0
    /\ cls' = None /\ last_reply' = None

\* the script is started: classify_clusters opens the input and loads the
\* existing results
StartRun ==
    /\ c_pc \in {"idle", "stopped", "finished"}
    /\ run < MaxRuns
    /\ run' = run + 1
    /\ file_at_start' = out_file
    /\ results' = LoadExisting(out_file)
    /\ called' = {}
    /\ c_idx' = 1
    /\ c_pc' = "loop"
    /\ NoCall
    /\ UNCHANGED <<c_data, out_file, tmp_file, max_retries, pvars, qvars, svars, mvars, tvars>>

\* "if not isinstance(summaries, list): continue"
SkipNotList ==
    /\ c_pc = "loop" /\ c_idx <= Len(c_data)
    /\ c_data[c_idx].summaries = None
    /\ c_idx' = c_idx + 1
    /\ UNCHANGED <<c_pc, c_data, out_file, tmp_file, results, max_retries,
                   attempt, backoff, sleeps, n_calls, cls, run, file_at_start,
                   last_reply, called, pvars, qvars, svars, mvars, tvars>>

\* "Already classified; skipping."
SkipClassified ==
    /\ c_pc = "loop" /\ c_idx <= Len(c_data)
    /\ c_data[c_idx].summaries # None
    /\ AlreadyClassified(results, c_data[c_idx].name)
    /\ c_idx' = c_idx + 1
    /\ UNCHANGED <<c_pc, c_data, out_file, tmp_file, results, max_retries,
                   attempt, backoff, sleeps, n_calls, cls, run, file_at_start,
                   last_reply, called, pvars, qvars, svars, mvars, tvars>>

\* cls = classify_cluster_with_gpt(cluster_name, summaries): entry, up to the
\* first iteration of "for attempt in range(1, MAX_RETRIES + 1)"
BeginCall ==
    /\ c_pc = "loop" /\ c_idx <= Len(c_data)
    /\ c_data[c_idx].summaries # None
    /\ ~AlreadyClassified(results, c_data[c_idx].name)
    /\ backoff' = 1 /\ sleeps' = <<>> /\ n_calls' = 0 /\ last_reply' = None
    /\ IF max_retries >= 1
       THEN attempt' = 1 /\ cls' = None /\ c_pc' = "call"
       ELSE /\ attempt' = 0
            /\ cls' = Some(FallbackRecord(c_data[c_idx].summaries[1]))
            /\ c_pc' = "store"
    /\ UNCHANGED <<c_data, out_file, tmp_file, results, c_idx, max_retries, run,
                   file_at_start, called, pvars, qvars, svars, mvars, tvars>>

\* one iteration of the retry loop: the request, then the return, the sleep
\* or the break
Attempt ==
    /\ c_pc = "call"
    /\ \E outcome \in GptOutcomes :
        /\ last_reply' = Some(outcome)
        /\ n_calls' = n_calls + 1
        /\ called' = called \cup {c_data[c_idx].name}
        /\ IF outcome.json_ok
           THEN /\ cls' = Some(RecordFromReply(outcome, c_data[c_idx].summaries[1]))
                /\ c_pc' = "store"
                /\ UNCHANGED <<attempt, backoff, sleeps>>
           ELSE IF attempt = max_retries
           THEN /\ cls' = Some(FallbackRecord(c_data[c_idx].summaries[1]))
                /\ c_pc' = "store"
                /\ UNCHANGED <<attempt, backoff, sleeps>>
           ELSE /\ sleeps' = Append(sleeps, backoff)
                /\ backoff' = NextBackoff(backoff)
                /\ attempt' = attempt + 1
                /\ UNCHANGED <<cls, c_pc>>
    /\ UNCHANGED <<c_data, out_file, tmp_file, results, c_idx, max_retries, run,
                   file_at_start, pvars, qvars, svars, mvars, tvars>>

\* lines 240-267: results[cluster_name] = {...}
StoreResult ==
    /\ c_pc = "store"
    /\ results' = DictPut(results, c_data[c_idx].name, StoredRecord(cls[1]))
    /\ c_pc' = "open_tmp"
    /\ NoCall
    /\ UNCHANGED <<c_data, out_file, tmp_file, c_idx, max_retries, run,
                   file_at_start, called, pvars, qvars, svars, mvars, tvars>>

\* the loop has ended: "return results", back in the script's main part
ReturnResults ==
    /\ c_pc = "loop" /\ c_idx > Len(c_data)
    /\ c_pc' = "main_open_tmp"
    /\ UNCHANGED <<c_data, out_file, tmp_file, results, c_idx, max_retries,
                   attempt, backoff, sleeps, n_calls, cls, run, file_at_start,
                   last_reply, called, pvars, qvars, svars, mvars, tvars>>

\* variant: the output file itself opened for writing
AtomicOpenInPlace ==
    /\ c_pc \in {"open_tmp", "main_open_tmp"}
    /\ out_file' = Truncated
    /\ c_pc' = IF c_pc = "open_tmp" THEN "dump_tmp" ELSE "main_dump_tmp"
    /\ UNCHANGED <<c_data, tmp_file, results, c_idx, max_retries,
                   attempt, backoff, sleeps, n_calls, cls, run, file_at_start,
                   last_reply, called, pvars, qvars, svars, mvars, tvars>>

\* _atomic_write_json: open(tmp, "w") truncates the temporary file
AtomicOpen ==
    /\ c_pc \in {"open_tmp", "main_open_tmp"}
    /\ tmp_file' = Truncated
    /\ c_pc' = IF c_pc = "open_tmp" THEN "dump_tmp" ELSE "main_dump_tmp"
    /\ UNCHANGED <<c_data, out_file, results, c_idx, max_retries,
                   attempt, backoff, sleeps, n_calls, cls, run, file_at_start,
                   last_reply, called, pvars, qvars, svars, mvars, tvars>>

\* _atomic_write_json: json.dump(obj, f) and the close of the file
AtomicDump ==
    /\ c_pc \in {"dump_tmp", "main_dump_tmp"}
    /\ tmp_file' = FileOf(results)
    /\ c_pc' = IF c_pc = "dump_tmp" THEN "replace" ELSE "main_replace"
    /\ UNCHANGED <<c_data, out_file, results, c_idx, max_retries,
                   attempt, backoff, sleeps, n_calls, cls, run, file_at_start,
                   last_reply, called, pvars, qvars, svars, mvars, tvars>>

\* _atomic_write_json: os.replace(tmp, path); then the next loop iteration,
\* or the end of the script
AtomicReplace ==
    /\ c_pc \in {"replace", "main_replace"}
    /\ out_file' = tmp_file
    /\ tmp_file' = None
    /\ IF c_pc = "replace"
       THEN c_pc' = "loop" /\ c_idx' = c_idx + 1
       ELSE c_pc' = "finished" /\ UNCHANGED c_idx
    /\ UNCHANGED <<c_data, results, max_retries,
                   attempt, backoff, sleeps, n_calls, cls, run, file_at_start,
                   last_reply, called, pvars, qvars, svars, mvars, tvars>>

\* the process is interrupted or killed while it runs
Interrupt ==
    /\ c_pc \notin {"idle", "stopped", "finished"}
    /\ c_pc' = "stopped"
    /\ UNCHANGED <<c_data, out_file, tmp_file, results, c_idx, max_retries,
                   attempt, backoff, sleeps, n_calls, cls, run, file_at_start,
                   last_reply, called, pvars, qvars, svars, mvars, tvars>>

NextClassify ==
    \/ StartRun
    \/ SkipNotList
    \/ SkipClassified
    \/ BeginCall
    \/ Attempt
    \/ StoreResult
    \/ ReturnResults
    \/ AtomicOpen
    \/ AtomicDump
    \/ AtomicReplace
    \/ Interrupt

SpecClassify == InitClassify /\ [][NextClassify]_vars

----------------------------------------------------------------------------
(* src/categorize_summaries.py: the record of one reply, for replies of every
   shape *)

\* longest "categories" list of a drawn reply
MaxCategories == 3

\* strings of a reply: a name, the same name after white space, another name,
\* white space alone
CategoryTexts == { <<"Tort">>, <<" ", "Tort">>, <<"IP Law">>, <<" ">> }

\* a value that is absent or a string; a value that is a list of strings
DrawnStrings == {Absent} \cup {JStr(t) : t \in CategoryTexts \cup {<<>>}}
DrawnLists ==
    {JList(l) : l \in UNION {[1..n -> CategoryTexts] : n \in 0..MaxCategories}}

\* the parsed replies with "categories" from the given set, with and without
\* "category" and "primary"
DrawnReplies(categories_values) ==
    { Reply(categories, category, primary, "0.9") :
        categories \in categories_values,
        category \in {Absent, JStr(<<>>), JStr(<<"Tort">>)},
        primary \in {JStr(<<"Antitrust">>)} \cup DrawnStrings }

InitRecord ==
    /\ c_pc = "call"
    /\ c_data = <<[name |-> "A", summaries |-> Some(1)]>> /\ c_idx = 1
    /\ \/ last_reply = Some(Failure)
       \/ \E reply \in DrawnReplies(DrawnStrings) : last_reply = Some(reply)
       \/ \E reply \in DrawnReplies(DrawnLists) : last_reply = Some(reply)
    /\ out_file = None /\ tmp_file = None /\ results = EmptyDict
    /\ max_retries = 0 /\ attempt = 0 /\ backoff = 0 /\ sleeps = <<>>
    /\ n_calls = 0 /\ cls = None /\ run = 1 /\ file_at_start = None
    /\ called = {}
    /\ PipelineIdle /\ QualityIdle /\ SilhouetteIdle
    /\ MergeIdle /\ CasesIdle

\* classify_cluster_with_gpt on its last attempt, the outcome being last_reply
ClassifyDrawn ==
    /\ c_pc = "call"
    /\ cls' = Some(IF last_reply[1].json_ok
                   THEN RecordFromReply(last_reply[1], c_data[c_idx].summaries[1])
                   ELSE FallbackRecord(c_data[c_idx].summaries[1]))
    /\ n_calls' = n_calls + 1
    /\ called' = called \cup {c_data[c_idx].name}
    /\ c_pc' = "store"
    /\ UNCHANGED <<c_data, out_file, tmp_file, results, c_idx, max_retries,
                   attempt, backoff, sleeps, run, file_at_start, last_reply,
                   pvars, qvars, svars, mvars, tvars>>

\* lines 240-267 for that record, the reply kept for comparison
StoreDrawn ==
    /\ c_pc = "store"
    /\ results' = DictPut(results, c_data[c_idx].name, StoredRecord(cls[1]))
    /\ c_pc' = "open_tmp"
    /\ UNCHANGED <<c_data, out_file, tmp_file, c_idx, max_retries, attempt,
                   backoff, sleeps, n_calls, cls, run, file_at_start,
                   last_reply, called, pvars, qvars, svars, mvars, tvars>>

NextRecord == ClassifyDrawn \/ StoreDrawn

SpecRecord == InitRecord /\ [][NextRecord]_vars

----------------------------------------------------------------------------
(* Properties of classify_clusters / classify_cluster_with_gpt (SpecClassify) *)

ObjOf(file) == IF file = None THEN EmptyDict ELSE file[1].obj

\* C5: a run of classify_clusters that starts with an existing output file
\* never calls the annotator for a cluster name present in that file, and the
\* value recorded for every such cluster is unchanged in results and in the
\* output file as rewritten.
C5_Resumable ==
    run >= 1 =>
        \A k \in DOMAIN ObjOf(file_at_start) :
            /\ k \notin called
            /\ k \in DOMAIN results
            /\ results[k] = ObjOf(file_at_start)[k]
            /\ out_file # None
            /\ out_file[1].complete
            /\ k \in DOMAIN out_file[1].obj
            /\ out_file[1].obj[k] = ObjOf(file_at_start)[k]

\* a second run that found one cluster in the file, skipped it, classified
\* another one and rewrote the file
C5_Witness ==
    /\ run = 2 /\ c_pc = "finished"
    /\ DOMAIN ObjOf(file_at_start) # {}
    /\ called # {}
    /\ \E i \in DOMAIN c_data : c_data[i].name \in DOMAIN ObjOf(file_at_start)
    /\ DOMAIN ObjOf(out_file) # DOMAIN ObjOf(file_at_start)

\* C10: classify_cluster_with_gpt always returns a record: it makes at most
\* MAX_RETRIES annotator calls, sleeps after every failed attempt but the
\* last, for 1, 2, 4, 8, 8, ... seconds, and when every attempt failed it
\* returns the fallback record (["Unrelated"], "Unrelated", None, 0.0).
Delay(i) == IF i >= 4 THEN 8 ELSE 2 ^ (i - 1)

C10_BoundedRetries ==
    /\ n_calls <= max_retries
    /\ \A i \in 1..Len(sleeps) : sleeps[i] = Delay(i)
    /\ c_pc = "call" => /\ cls = None
                        /\ Len(sleeps) = n_calls
                        /\ n_calls = attempt - 1
                        /\ n_calls < max_retries
    /\ c_pc = "store" =>
        /\ cls # None
        /\ Len(cls[1].categories) \in {1, 2}
        /\ Len(sleeps) = Max(n_calls - 1, 0)
        /\ (last_reply = None \/ ~last_reply[1].json_ok) =>
            /\ n_calls = max_retries
            /\ cls[1].categories = << <<"Unrelated">> >>
            /\ cls[1].primary = <<"Unrelated">>
            /\ cls[1].secondary = None
            /\ cls[1].confidence = "0.0"

\* every one of MAX_RETRIES = 6 attempts failed
C10_Witness ==
    /\ c_pc = "store"
    /\ max_retries = 6
    /\ n_calls = 6
    /\ sleeps = <<1, 2, 4, 8, 8>>
    /\ ~last_reply[1].json_ok
    /\ cls[1].rationale = "Classification failed after retries"

\* C26: whenever the run may be interrupted, the output file is absent, or the
\* file from before the run, or a complete record holding every cluster that
\* file held, unchanged, plus the first j clusters this run classified, in
\* input order; a partially written file is only ever the temporary one.
IsNewCluster(item) ==
    item.summaries # None /\ item.name \notin DOMAIN LoadExisting(file_at_start)

C26_OutputNeverPartial ==
    \/ out_file = None
    \/ /\ out_file[1].complete
       /\ \/ out_file = file_at_start
          \/ LET before == LoadExisting(file_at_start)
                 obj == out_file[1].obj
                 new_clusters == SelectSeq(c_data, IsNewCluster)
             IN  /\ \A k \in DOMAIN before :
                        k \in DOMAIN obj /\ obj[k] = before[k]
                 /\ \E j \in 0..Len(new_clusters) :
                        (DOMAIN obj) \ (DOMAIN before) =
                            {new_clusters[i].name : i \in 1..j}
                 /\ \A k \in DOMAIN obj :
                        Len(obj[k].categories) \in {1, 2}

\* the run was stopped while the temporary file was half written: the output
\* file holds the first of the two clusters of this run
C26_Witness ==
    /\ c_pc = "stopped"
    /\ tmp_file = Truncated
    /\ out_file # None /\ out_file # file_at_start
    /\ Len(SelectSeq(c_data, IsNewCluster)) = 2
    /\ DOMAIN out_file[1].obj = {c_data[1].name}

\* C28: for every reply of the annotator, the record returned by
\* classify_cluster_with_gpt and the record stored by classify_clusters have
\* one or two categories without repeats, primary = categories[0], and
\* secondary None for one category, categories[1] (different from primary) for
\* two; and _enforce_two_categories applied to its own output, with the first
\* entry as primary, returns that output.
WellFormedRecord(r) ==
    /\ Len(r.categories) \in {1, 2}
    /\ r.primary = r.categories[1]
    /\ Len(r.categories) = 1 => r.secondary = None
    /\ Len(r.categories) = 2 =>
            /\ r.categories[1] # r.categories[2]
            /\ r.secondary = Some(r.categories[2])
            /\ r.categories[2] # r.primary

EnforceIsIdempotentOn(categories, primary) ==
    LET out == EnforceTwoCategories(categories, primary)
    IN  EnforceTwoCategories(out, out[1]) = out

C28_RecordsWellFormed ==
    /\ cls # None => WellFormedRecord(cls[1])
    /\ \A k \in DOMAIN results : WellFormedRecord(results[k])
    /\ (cls # None /\ last_reply # None) =>
            LET reply == last_reply[1]
            IN  /\ EnforceIsIdempotentOn(cls[1].categories, cls[1].primary)
                /\ reply.categories.kind = "list" =>
                        EnforceIsIdempotentOn(reply.categories.v, reply.primary.v)

\* a reply of three categories, two of them equal after stripping, whose
\* primary is the last one: the stored record has it in front
C28_Witness ==
    /\ c_pc = "open_tmp" /\ last_reply # None
    /\ last_reply[1].categories.kind = "list"
    /\ Len(last_reply[1].categories.v) = 3
    /\ last_reply[1].categories =
            JList(<< <<" ", "Tort">>, <<"Tort">>, <<"IP Law">> >>)
    /\ last_reply[1].primary = JStr(<<"IP Law">>)
    /\ "A" \in DOMAIN results
    /\ results["A"].categories = << <<"IP Law">>, <<"Tort">> >>
    /\ results["A"].secondary = Some(<<"Tort">>)

\* C27: a cluster that got the fallback record after every attempt failed is
\* stored like any other; a later run finds it in the file, never calls the
\* annotator for it and keeps its record.
IsFallback(record) == record.rationale = "Classification failed after retries"

C27_FallbackCountsAsClassified ==
    /\ (c_pc = "open_tmp" /\ called # {}) =>
            c_data[c_idx].name \in DOMAIN results
    /\ run >= 1 =>
        \A k \in DOMAIN ObjOf(file_at_start) :
            IsFallback(ObjOf(file_at_start)[k]) =>
                /\ k \notin called
                /\ k \in DOMAIN results /\ IsFallback(results[k])
                /\ results[k].primary = <<"Unrelated">>

\* a second run has finished over a file in which a cluster of the input holds
\* the fallback record, after retries that all failed
C27_Witness ==
    /\ run = 2 /\ c_pc = "finished"
    /\ max_retries >= 2
    /\ \E i \in DOMAIN c_data :
        /\ c_data[i].summaries # None
        /\ c_data[i].name \in DOMAIN ObjOf(file_at_start)
        /\ IsFallback(ObjOf(file_at_start)[c_data[i].name])
        /\ c_data[i].name \notin called

----------------------------------------------------------------------------
(* Further properties of the pipeline (checked under Spec) *)

\* the dictionary an annotation function fills
DictOf(fn) ==
    IF fn = "classify" THEN mid_to_category
    ELSE IF fn = "name_mid" THEN cluster_names_mid
    ELSE cluster_names_fine

\* C11: in the three annotation loops of the main pipeline a failed annotator
\* call is retried: the step that records the fallback for a cluster after a
\* raised call comes after an earlier raised call for the same cluster by the
\* same function.
C11_Step ==
    (/\ pc \in {"classify", "name_mid", "name_fine"}
     /\ last_call' # None
     /\ last_call'[1].outcome.raised
     /\ last_call'[1].label \in DOMAIN DictOf(pc)'
     /\ last_call'[1].label \notin DOMAIN DictOf(pc))
        => /\ last_call # None
           /\ last_call[1].fn = last_call'[1].fn
           /\ last_call[1].label = last_call'[1].label
           /\ last_call[1].outcome.raised

C11_RetriedBeforeFallback == [][C11_Step]_vars

\* C12: when the input is in error (len(embeddings) differs from len(data), or
\* a K-Means pass is asked for more clusters than it has points: n_fine above
\* the number of documents, n_mid above the n_fine centroids) the run stops
\* before any clustering: no K-Means labels and no HDBSCAN labels are ever
\* computed, no annotator call is made and no output is written.
InputError ==
    \/ n_embeddings # Len(data)
    \/ KMeansFails(Len(data), n_fine)
    \/ KMeansFails(n_fine, n_mid)

C12_InputErrorStopsBeforeClustering ==
    InputError =>
        /\ labels_fine = <<>> /\ labels_mid = <<>> /\ hdbscan_labels = <<>>
        /\ last_call = None
        /\ output = None
        /\ pc \notin {"hdbscan", "assess", "analyze", "client", "classify",
                      "name_mid", "name_fine", "save", "done"}

\* C15: in the output every document carries the category of its mid
\* cluster: two documents with the same mid_cluster have the same
\* legal_category and legal_category_name, and these are the ones recorded
\* for that mid cluster in meta.hierarchy and in meta.mid_to_category.
C15_CategoryInheritedFromMid ==
    output # None =>
        LET meta == output[1].meta
        IN  /\ \A i, j \in 1..Len(Documents) :
                Documents[i].mid_cluster = Documents[j].mid_cluster =>
                    /\ Documents[i].legal_category = Documents[j].legal_category
                    /\ Documents[i].legal_category_name =
                            Documents[j].legal_category_name
            /\ \A i \in 1..Len(Documents) :
                LET m == Documents[i].mid_cluster
                IN  /\ m \in DOMAIN meta.hierarchy
                    /\ m \in DOMAIN meta.mid_to_category
                    /\ Documents[i].legal_category = meta.hierarchy[m].legal_category
                    /\ Documents[i].legal_category_name =
                            meta.hierarchy[m].legal_category_name
                    /\ Documents[i].legal_category = meta.mid_to_category[m].number
                    /\ Documents[i].legal_category_name =
                            meta.mid_to_category[m].name

\* two documents of different fine clusters in one mid topic, which was
\* classified by a parsed reply
C15_Witness ==
    /\ output # None
    /\ Len(Documents) = 2
    /\ Documents[1].fine_cluster # Documents[2].fine_cluster
    /\ Documents[1].mid_cluster = Documents[2].mid_cluster
    /\ Documents[1].legal_category = 2

\* C18: the stages run one after the other in the order reduction, fine
\* K-Means, mid K-Means, HDBSCAN, quality assessment, annotation, assembly: a
\* stage's result exists only when the result of the stage before it exists;
\* every mid topic is classified before the first mid topic is named, and every
\* mid topic is named before the first fine cluster is named.
FnRank(fn) == IF fn = "classify" THEN 1 ELSE IF fn = "name_mid" THEN 2 ELSE 3

C18_StagesInOrder ==
    /\ pc \in {"start", "load_embeddings", "reduce", "hybrid", "kmeans_fine"}
            => labels_fine = <<>>
    /\ labels_mid # <<>> => labels_fine # <<>>
    /\ hdbscan_labels # <<>> => labels_mid # <<>>
    /\ cluster_quality # EmptyDict => hdbscan_labels # <<>>
    /\ fine_to_mid # EmptyDict => cluster_quality # EmptyDict
    /\ calls # <<>> => fine_to_mid # EmptyDict
    /\ \A j, k \in 1..Len(calls) :
            j < k => FnRank(calls[j].fn) <= FnRank(calls[k].fn)
    /\ (\E k \in 1..Len(calls) : calls[k].fn = "name_mid")
            => DOMAIN mid_to_category = Range(labels_mid)
    /\ (\E k \in 1..Len(calls) : calls[k].fn = "name_fine")
            => DOMAIN cluster_names_mid = Range(labels_mid)
    /\ cluster_names_mid # EmptyDict => DOMAIN mid_to_category = Range(labels_mid)
    /\ cluster_names_fine # EmptyDict => DOMAIN cluster_names_mid = Range(labels_mid)
    /\ output # None =>
            /\ DOMAIN cluster_names_fine = Range(labels_fine)
            /\ Len(calls) = 2 * Cardinality(Range(labels_mid))
                                + Cardinality(Range(labels_fine))

\* a finished run with two mid topics and two fine clusters
C18_Witness ==
    /\ pc = "done"
    /\ Len(calls) = 6
    /\ <<calls[2].fn, calls[3].fn, calls[4].fn, calls[5].fn>> =
            <<"classify", "name_mid", "name_mid", "name_fine">>

\* C19: in the hierarchy of the output every fine label that has a point is
\* listed under exactly one mid label, the mid label of all its points, and
\* once only.
FineIdsUnder(entry) ==
    [j \in 1..Len(entry.fine_clusters) |-> entry.fine_clusters[j].id]

C19_FineUnderOneMid ==
    output # None =>
        LET hierarchy == output[1].meta.hierarchy
        IN  /\ \A fine \in Range(labels_fine) :
                LET listed_under ==
                        {m \in DOMAIN hierarchy :
                            fine \in Range(FineIdsUnder(hierarchy[m]))}
                IN  /\ Cardinality(listed_under) = 1
                    /\ \A i \in DOMAIN labels_fine :
                            labels_fine[i] = fine => labels_mid[i] \in listed_under
            /\ \A m \in DOMAIN hierarchy :
                LET ids == FineIdsUnder(hierarchy[m])
                IN  /\ Cardinality(Range(ids)) = Len(ids)
                    /\ Range(ids) \subseteq Range(labels_fine)

\* two mid topics with one fine cluster each, fine cluster 0 under mid topic 1
C19_Witness ==
    /\ output # None
    /\ DOMAIN output[1].meta.hierarchy = {0, 1}
    /\ FineIdsUnder(output[1].meta.hierarchy[1]) = <<0>>
    /\ FineIdsUnder(output[1].meta.hierarchy[0]) = <<1>>

\* C20 (checked under SpecQuality): for each fine label k with point set S,
\* assess_cluster_quality records size = |S|, noise_ratio = (number of points
\* of S with HDBSCAN label -1) / |S|, and n_hdbscan_subclusters = the number of
\* distinct HDBSCAN labels other than -1 among the points of S.
C20_QualityCounts ==
    q_out # None =>
        LET kl == q_in[1].kmeans_labels
            hl == q_in[1].hdbscan_labels
        IN  /\ DOMAIN q_out[1] = Range(kl)
            /\ \A k \in DOMAIN q_out[1] :
                LET S == {i \in 1..Len(kl) : kl[i] = k}
                    noisy == {i \in S : hl[i] = -1}
                    dense == {c \in 0..1 : \E i \in S : hl[i] = c}
                    q == q_out[1][k]
                IN  /\ q.size = Cardinality(S)
                    /\ q.noise_ratio.den = Cardinality(S)
                    /\ q.noise_ratio.num = Cardinality(noisy)
                    /\ q.n_hdbscan_subclusters = Cardinality(dense)

\* two fine clusters: one with noise and two HDBSCAN clusters, the other all
\* noise, while noise also lies outside each of them
C20_Witness ==
    /\ q_out # None
    /\ DOMAIN q_out[1] = {0, 1}
    /\ q_out[1][0].size = 5 /\ q_out[1][0].noise_ratio = Ratio(2, 5)
    /\ q_out[1][0].n_hdbscan_subclusters = 2
    /\ q_out[1][1].size = 3 /\ q_out[1][1].noise_ratio = Ratio(3, 3)
    /\ q_out[1][1].n_hdbscan_subclusters = 0

\* C24 (checked under SpecQuality): a fine cluster has no HDBSCAN subcluster
\* exactly when all its points are noise (noise_ratio = 1); so the tier is
\* "high" exactly when noise_ratio < 0.3, "medium" exactly when
\* 0.3 <= noise_ratio < 0.6 and "low" exactly when noise_ratio >= 0.6.
C24_TierByNoiseRatioAlone ==
    q_out # None =>
        \A k \in DOMAIN q_out[1] :
            LET q == q_out[1][k]
                n == q.noise_ratio.num
                d == q.noise_ratio.den
            IN  /\ d >= 1
                /\ (q.n_hdbscan_subclusters = 0) <=> (n = d)
                /\ (q.quality = "high") <=> (10 * n < 3 * d)
                /\ (q.quality = "medium") <=> (3 * d <= 10 * n /\ 10 * n < 6 * d)
                /\ (q.quality = "low") <=> (10 * n >= 6 * d)

\* one cluster with a single HDBSCAN cluster and a little noise, the other
\* all noise
C24_Witness ==
    /\ q_out # None
    /\ DOMAIN q_out[1] = {0, 1}
    /\ q_out[1][0].noise_ratio = Ratio(1, 4)
    /\ q_out[1][0].n_hdbscan_subclusters = 1
    /\ q_out[1][0].quality = "high"
    /\ q_out[1][1].noise_ratio = Ratio(2, 2)
    /\ q_out[1][1].n_hdbscan_subclusters = 0

\* C25: in the hierarchy of the output the size of each mid topic is the sum of
\* the sizes of the fine clusters listed under it, and the sizes of the mid
\* topics add up to the number of documents.
RECURSIVE SumOfSizes(_)
SumOfSizes(entries) ==
    IF entries = <<>> THEN 0 ELSE Head(entries).size + SumOfSizes(Tail(entries))

C25_SizesAddUp ==
    output # None =>
        LET hierarchy == output[1].meta.hierarchy
            mids == SortedSeq(DOMAIN hierarchy)
        IN  /\ \A m \in DOMAIN hierarchy :
                hierarchy[m].size = SumOfSizes(hierarchy[m].fine_clusters)
            /\ SumOfSizes([j \in 1..Len(mids) |-> hierarchy[mids[j]]])
                    = Len(data)

\* one mid topic of two documents holding two fine clusters of one document
C25_Witness ==
    /\ output # None
    /\ \E m \in DOMAIN output[1].meta.hierarchy :
        /\ output[1].meta.hierarchy[m].size = 2
        /\ Len(output[1].meta.hierarchy[m].fine_clusters) = 2

\* C23: after the annotation stage cluster_quality and cluster_names_fine hold
\* an entry for exactly the fine labels in use, mid_to_category and
\* cluster_names_mid for exactly the mid labels in use, whether the calls
\* succeeded or failed; so every lookup of save_processed_data finds its key
\* and no document is written with a default (quality "unknown", score 0.5,
\* name "Cluster <id>" / "Topic <id>" from .get).
C23_DictionariesComplete ==
    /\ pc \in {"save", "done"} =>
        /\ DOMAIN cluster_quality = Range(labels_fine)
        /\ DOMAIN cluster_names_fine = Range(labels_fine)
        /\ DOMAIN mid_to_category = Range(labels_mid)
        /\ DOMAIN cluster_names_mid = Range(labels_mid)
    /\ output # None =>
        \A i \in 1..Len(Documents) :
            LET doc == Documents[i]
            IN  /\ doc.fine_cluster \in DOMAIN cluster_quality
                /\ doc.cluster_quality # "unknown"
                /\ doc.cluster_quality = cluster_quality[doc.fine_cluster].quality
                /\ doc.cluster_quality_score =
                        cluster_quality[doc.fine_cluster].quality_score
                /\ doc.fine_cluster_name = cluster_names_fine[doc.fine_cluster]
                /\ doc.mid_cluster_name = cluster_names_mid[doc.mid_cluster]
                /\ doc.legal_category = mid_to_category[doc.mid_cluster][1]

\* a finished run with two fine clusters in which the naming call of fine
\* cluster 1 and the naming call of a mid topic both raised
C23_Witness ==
    /\ output # None
    /\ Range(labels_fine) = {0, 1}
    /\ cluster_names_fine[1] = <<"Cluster", " ", "1">>
    /\ \E m \in DOMAIN cluster_names_mid :
            cluster_names_mid[m][1] = "Topic"

\* C21: once assess_cluster_quality has run, a fine cluster id in [0, n_fine)
\* without points has a quality record, with noise_ratio 0 and tier "low".
C21_EmptyClusterHasLowRecord ==
    cluster_quality # EmptyDict =>
        \A k \in 0..(n_fine - 1) :
            CountOf(labels_fine, k) = 0 =>
                /\ k \in DOMAIN cluster_quality
                /\ cluster_quality[k].noise_ratio.num = 0
                /\ cluster_quality[k].quality = "low"

----------------------------------------------------------------------------
(* classify_mid_topics_into_categories(summaries, labels_mid, client) on     *)
(* drawn mid labels (SpecClassifyMid): main() has reached step [6/7] with up *)
(* to MaxSampleDocs documents in two mid topics, each mid topic holding two  *)
(* fine clusters (fine labels 2m and 2m + 1 under mid label m).              *)

MaxSampleDocs == 22

\* the mid labels drawn: a run of one label then a run of the other, or the
\* two labels alternating
MidLabelArrays(n) ==
    {Rep(0, a) \o Rep(1, n - a) : a \in 0..n}
        \cup {Rep(1, a) \o Rep(0, n - a) : a \in 0..n}
        \cup {[i \in 1..n |-> i % 2]}

InitClassifyMid ==
    /\ pc = "classify" /\ idx = 1
    /\ \E n \in 1..MaxSampleDocs :
        /\ data = [i \in 1..n |-> i]
        /\ n_embeddings = n
        /\ labels_mid \in MidLabelArrays(n)
    /\ size_args = Some([n_fine |-> Some(4), n_mid |-> Some(2)])
    /\ n_fine = 4 /\ n_mid = 2
    /\ labels_fine = [i \in DOMAIN labels_mid |-> 2 * labels_mid[i] + (i % 2)]
    /\ hdbscan_labels = Rep(Noise, Len(data))
    /\ cluster_quality = AssessClusterQuality(labels_fine, hdbscan_labels)
    /\ fine_to_mid = AnalyzeHierarchy(labels_fine, labels_mid)
    /\ mid_to_category = EmptyDict
    /\ cluster_names_mid = EmptyDict /\ cluster_names_fine = EmptyDict
    /\ last_call = None /\ calls = <<>> /\ output = None
    /\ QualityIdle /\ SilhouetteIdle /\ ClassifyIdle
    /\ MergeIdle /\ CasesIdle

NextClassifyMid == ClassifyMidTopic

SpecClassifyMid == InitClassifyMid /\ [][NextClassifyMid]_vars

\* C13: the category classifier is called exactly once per distinct mid label
\* (in np.unique order), not per fine cluster and not per document; each call
\* is given the first min(20, size) documents of that mid cluster; when the
\* function has returned, the number of calls is the number of distinct mid
\* labels.
IsClassifyCall(c) == c.fn = "classify"

C13_OncePerMidCluster ==
    LET classify_calls == SelectSeq(calls, IsClassifyCall)
        mids == Range(labels_mid)
    IN  /\ Len(classify_calls) <= Cardinality(mids)
        /\ \A j, k \in 1..Len(classify_calls) :
                j < k => classify_calls[j].label < classify_calls[k].label
        /\ \A k \in 1..Len(classify_calls) :
            LET c == classify_calls[k]
                members == {i \in DOMAIN labels_mid : labels_mid[i] = c.label}
                given == Range(c.sample)
            IN  /\ c.label \in mids
                /\ Len(c.sample) <= 20
                /\ Len(c.sample) = Cardinality(given)
                /\ Cardinality(given) = Min(20, Cardinality(members))
                /\ given \subseteq members
                /\ \A m \in members \ given : \A g \in given : g < m
        /\ DOMAIN mid_to_category = {classify_calls[k].label :
                                        k \in 1..Len(classify_calls)}
        /\ pc \in {"name_mid", "name_fine", "save", "done"} =>
                Len(classify_calls) = Cardinality(mids)

\* two mid topics, three fine clusters, one topic with more than 20 documents
C13_Witness ==
    /\ pc = "name_mid"
    /\ Len(calls) = 2
    /\ Cardinality(Range(labels_fine)) = 3
    /\ \E k \in 1..2 :
        /\ Len(calls[k].sample) = 20
        /\ Cardinality({i \in DOMAIN labels_mid : labels_mid[i] = calls[k].label}) > 20

----------------------------------------------------------------------------
(* hybrid_clustering_with_quality: the cluster counts for document counts   *)
(* large enough to reach both ends of the clamps (SpecSizing)               *)

MaxSizingDocs == 810

InitSizing ==
    /\ pc = "hybrid"
    /\ \E n \in 0..MaxSizingDocs : data = [i \in 1..n |-> i]
    /\ n_embeddings = Len(data)
    /\ size_args = None /\ n_fine = 0 /\ n_mid = 0
    /\ labels_fine = <<>> /\ labels_mid = <<>> /\ hdbscan_labels = <<>>
    /\ cluster_quality = EmptyDict /\ fine_to_mid = EmptyDict /\ idx = 0
    /\ mid_to_category = EmptyDict
    /\ cluster_names_mid = EmptyDict /\ cluster_names_fine = EmptyDict
    /\ last_call = None /\ calls = <<>> /\ output = None
    /\ QualityIdle /\ SilhouetteIdle /\ ClassifyIdle
    /\ MergeIdle /\ CasesIdle

NextSizing == HybridEnter

SpecSizing == InitSizing /\ [][NextSizing]_vars

\* C14: without an n_fine argument n_fine is N // 8 held within [40, 100], and
\* without an n_mid argument n_mid is N // 25 held within [15, 30], for every
\* document count N >= 0; an argument that is given is used as it is.
IsFloorDiv(q, n, d) == d * q <= n /\ n < d * (q + 1)

IsClamped(v, q, lo, hi) ==
    /\ lo <= v /\ v <= hi
    /\ q <= lo => v = lo
    /\ q >= hi => v = hi
    /\ (lo < q /\ q < hi) => v = q

C14_AutoSizing ==
    size_args # None =>
        LET N == Len(data)
            given == size_args[1]
        IN  /\ given.n_fine = None =>
                \E q \in 0..N : IsFloorDiv(q, N, 8) /\ IsClamped(n_fine, q, 40, 100)
            /\ given.n_fine # None => n_fine = given.n_fine[1]
            /\ given.n_mid = None =>
                \E q \in 0..N : IsFloorDiv(q, N, 25) /\ IsClamped(n_mid, q, 15, 30)
            /\ given.n_mid # None => n_mid = given.n_mid[1]

\* both counts auto-sized and at their upper ends
C14_Witness ==
    /\ size_args = Some([n_fine |-> None, n_mid |-> None])
    /\ Len(data) >= 800
    /\ n_fine = 100 /\ n_mid = 30

\* C22: in every call of hybrid_clustering_with_quality, with the counts
\* auto-sized or given, n_mid < n_fine.
C22_MidBelowFine == size_args # None => n_mid < n_fine

\* C22, amended: when both counts are auto-sized, n_mid <= 30 < 40 <= n_fine;
\* a count that is given is taken as it is, whatever the other count.
C22_AutoMidBelowFine ==
    size_args # None =>
        LET given == size_args[1]
        IN  /\ (given.n_fine = None /\ given.n_mid = None) =>
                    /\ n_mid < n_fine
                    /\ n_mid <= 30 /\ 40 <= n_fine
            /\ given.n_fine # None => n_fine = given.n_fine[1]
            /\ given.n_mid # None => n_mid = given.n_mid[1]

\* both counts auto-sized, the mid count at its upper end before the fine
\* count is
C22_Witness ==
    /\ size_args = Some([n_fine |-> None, n_mid |-> None])
    /\ n_mid = 30 /\ n_fine < 100

----------------------------------------------------------------------------
(* src/misc/silh.py and src/hdbscan_subclass.py: silhouette of a clustering  *)
(* (SpecSilhouette). Either script's main() runs on drawn labels.            *)

MaxSilPoints == 4

\* sklearn.metrics.silhouette_score(X, labels): a float, or ValueError unless
\* 2 <= n_labels <= n_samples - 1
SilhouetteScore(labels) ==
    LET n_labels == Cardinality(Range(labels))
    IN  IF 2 <= n_labels /\ n_labels <= Len(labels) - 1
        THEN [raised |-> FALSE, value |-> Some("score")]
        ELSE [raised |-> TRUE, value |-> None]

\* what a call leaves behind: whether it raised, the value returned, and the
\* label arrays it passed to silhouette_score
NotComputable == [raised |-> FALSE, value |-> None, metric |-> <<>>]
Scored(labels) ==
    [raised |-> SilhouetteScore(labels).raised,
     value |-> SilhouetteScore(labels).value,
     metric |-> <<labels>>]

\* variant: the guard on the number of clusters left out
SafeSilhouetteUnguarded(labels) == Scored(labels)

\* silh.py: safe_silhouette(X, labels, name)
SafeSilhouette(labels) ==
    LET unique_labels == Unique(labels)
    IN  IF Len(unique_labels) < 2 THEN NotComputable ELSE Scored(labels)

IsCore(label) == label # Noise

\* hdbscan_subclass.py: compute_silhouette(points, labels)
ComputeSilhouette(labels) ==
    LET masked == SelectSeq(labels, IsCore)
        unique_clusters == Range(masked)
    IN  IF Len(masked) = 0 THEN NotComputable
        ELSE IF Cardinality(unique_clusters) < 2 THEN NotComputable
        ELSE Scored(masked)

\* the documents of a processed file: fine clusters 0 and 1 lie in mid topic
\* 0, fine cluster 2 in mid topic 1
SilIds == {Noise, 0, 1}
SilDocuments ==
    {[fine_cluster |-> f, mid_cluster |-> f \div 2, hdbscan_cluster |-> h] :
        f \in 0..2, h \in SilIds}

FineOf(docs) == [i \in DOMAIN docs |-> docs[i].fine_cluster]
MidOf(docs) == [i \in DOMAIN docs |-> docs[i].mid_cluster]
HdbscanOf(docs) == [i \in DOMAIN docs |-> docs[i].hdbscan_cluster]

InitSilhouette ==
    /\ s_pc \in {"silh_main", "subclass_main"}
    /\ s_docs = <<>> /\ s_labels = <<>>
    /\ s_sil = EmptyDict /\ s_metric = <<>>
    /\ PipelineIdle /\ QualityIdle /\ ClassifyIdle
    /\ MergeIdle /\ CasesIdle

\* the effect of one silhouette call whose value is kept under a name
Keep(name, call, next_pc) ==
    /\ s_metric' = s_metric \o call.metric
    /\ IF call.raised
       THEN s_pc' = "crashed" /\ UNCHANGED s_sil
       ELSE s_pc' = next_pc /\ s_sil' = DictPut(s_sil, name, call.value)

\* silh.py main(): "if not Path(INPUT_JSON).exists(): return"; load_data
SilhLoad ==
    /\ s_pc = "silh_main"
    /\ \E exists \in BOOLEAN :
        IF exists
        THEN /\ \E n \in 0..MaxSilPoints : s_docs' \in [1..n -> SilDocuments]
             /\ s_pc' = "sil_fine"
        ELSE s_pc' = "returned" /\ UNCHANGED s_docs
    /\ UNCHANGED <<s_labels, s_sil, s_metric, pvars, qvars, cvars, mvars, tvars>>

\* sil_fine = safe_silhouette(X, labels_fine, ...)
SilhFine ==
    /\ s_pc = "sil_fine"
    /\ Keep("sil_fine", SafeSilhouette(FineOf(s_docs)), "sil_mid")
    /\ UNCHANGED <<s_docs, s_labels, pvars, qvars, cvars, mvars, tvars>>

\* sil_mid = safe_silhouette(X, labels_mid, ...)
SilhMid ==
    /\ s_pc = "sil_mid"
    /\ Keep("sil_mid", SafeSilhouette(MidOf(s_docs)), "sil_hdb")
    /\ UNCHANGED <<s_docs, s_labels, pvars, qvars, cvars, mvars, tvars>>

\* the HDBSCAN labels with the noise points masked out
SilhHdbscan ==
    /\ s_pc = "sil_hdb"
    /\ LET labels_core == SelectSeq(HdbscanOf(s_docs), IsCore)
           n_core == Len(labels_core)
       IN  IF n_core > 0
           THEN Keep("sil_hdb", SafeSilhouette(labels_core), "summary")
           ELSE Keep("sil_hdb", NotComputable, "summary")
    /\ UNCHANGED <<s_docs, s_labels, pvars, qvars, cvars, mvars, tvars>>

\* the summary lines
SilhSummary ==
    /\ s_pc = "summary"
    /\ s_pc' = "done"
    /\ UNCHANGED <<s_docs, s_labels, s_sil, s_metric, pvars, qvars, cvars, mvars, tvars>>

\* hdbscan_subclass.py main(): load_3d_json; "if n == 0: raise ValueError"
SubclassLoad ==
    /\ s_pc = "subclass_main"
    /\ \E n \in 0..MaxSilPoints :
        /\ s_docs' = [i \in 1..n |-> i]
        /\ s_pc' = IF n = 0 THEN "crashed" ELSE "run_hdbscan"
    /\ UNCHANGED <<s_labels, s_sil, s_metric, pvars, qvars, cvars, mvars, tvars>>

\* labels, clusterer = run_hdbscan(points, ...)
SubclassRunHdbscan ==
    /\ s_pc = "run_hdbscan"
    /\ s_labels' \in [1..Len(s_docs) -> SilIds]
    /\ s_pc' = "compute_silhouette"
    /\ UNCHANGED <<s_docs, s_sil, s_metric, pvars, qvars, cvars, mvars, tvars>>

\* sil = compute_silhouette(points, labels)
SubclassSilhouette ==
    /\ s_pc = "compute_silhouette"
    /\ Keep("sil", ComputeSilhouette(s_labels), "save_results")
    /\ UNCHANGED <<s_docs, s_labels, pvars, qvars, cvars, mvars, tvars>>

\* save_results(...)
SubclassSave ==
    /\ s_pc = "save_results"
    /\ s_pc' = "done"
    /\ UNCHANGED <<s_docs, s_labels, s_sil, s_metric, pvars, qvars, cvars, mvars, tvars>>

NextSilhouette ==
    \/ SilhLoad
    \/ SilhFine
    \/ SilhMid
    \/ SilhHdbscan
    \/ SilhSummary
    \/ SubclassLoad
    \/ SubclassRunHdbscan
    \/ SubclassSilhouette
    \/ SubclassSave

SpecSilhouette == InitSilhouette /\ [][NextSilhouette]_vars

\* C16: a clustering with fewer than 2 distinct clusters (every point noise,
\* or one cluster besides the noise) gets the value None and does not raise:
\* silhouette_score is only ever called with at least 2 distinct labels, and
\* sil_fine, sil_mid, sil_hdb (silh.py) and sil (hdbscan_subclass.py) are None
\* exactly when the fine labels, the mid labels, the non-noise HDBSCAN labels
\* have fewer than 2 distinct values.
ClustersIn(labels) == Range(labels) \ {Noise}

C16_DegenerateIsNone ==
    LET Settled(name, labels) ==
            name \in DOMAIN s_sil =>
                (s_sil[name] = None <=> Cardinality(ClustersIn(labels)) < 2)
    IN  /\ \A k \in 1..Len(s_metric) :
                /\ Cardinality(Range(s_metric[k])) >= 2
                /\ Noise \notin Range(s_metric[k])
        /\ Settled("sil_fine", FineOf(s_docs))
        /\ Settled("sil_mid", MidOf(s_docs))
        /\ Settled("sil_hdb", HdbscanOf(s_docs))
        /\ Settled("sil", s_labels)
        /\ (s_pc = "crashed" /\ s_docs # <<>>) =>
                /\ s_metric # <<>>
                /\ Cardinality(Range(s_metric[Len(s_metric)])) >= 2

\* silh.py finished on a file whose HDBSCAN labels are noise and one cluster,
\* with the fine labels scored
C16_Witness ==
    /\ s_pc = "done"
    /\ "sil_hdb" \in DOMAIN s_sil /\ s_sil["sil_hdb"] = None
    /\ Range(HdbscanOf(s_docs)) = {Noise, 0}
    /\ s_sil["sil_fine"] # None

----------------------------------------------------------------------------
(* src/merge_embeddings.py: the labels of the re-clustered file moved away   *)
(* from the labels of the full file (SpecMerge)                              *)

CLUSTER_VALUE == 3

\* longest label list of either file
MaxLabels == 2

\* A label of a JSON file: an integer v; a float, v being twice its value
\* (v = 9 is 4.5); a string that int() rejects, v = 0 being "None"; null.
FullLabelValues ==
    {[kind |-> "int", v |-> n] : n \in {-2, -1, CLUSTER_VALUE, 4}}
        \cup {[kind |-> "float", v |-> 9], [kind |-> "str", v |-> 0]}

ReclLabelValues ==
    {[kind |-> "int", v |-> n] : n \in {-1, 0, 1}}
        \cup {[kind |-> "float", v |-> 1], [kind |-> "str", v |-> 0],
              [kind |-> "null", v |-> 0]}

\* int(x) succeeds on numbers and raises on these strings and on None
is_int_like(x) == x.kind \in {"int", "float"}

\* int(x): floats are truncated towards zero
IntOf(x) ==
    IF x.kind = "int" THEN x.v
    ELSE IF x.v >= 0 THEN x.v \div 2 ELSE -((-x.v) \div 2)

to_int_if_possible(x) ==
    IF is_int_like(x) THEN [kind |-> "int", v |-> IntOf(x)] ELSE x

normalize_labels(labels) ==
    [i \in DOMAIN labels |-> to_int_if_possible(labels[i])]

\* find_cluster_indices(labels, cluster_value), as a set of positions
find_cluster_indices(labels, cluster_value) ==
    {i \in DOMAIN labels :
        \/ labels[i] = [kind |-> "int", v |-> cluster_value]
        \/ is_int_like(labels[i]) /\ IntOf(labels[i]) = cluster_value}

\* line 81: the labels of the full file outside the replaced cluster
NonClusterLabels(labels) ==
    LET c_idxs == find_cluster_indices(labels, CLUSTER_VALUE)
    IN  [i \in 1..Cardinality(DOMAIN labels \ c_idxs) |->
            labels[CHOOSE j \in DOMAIN labels \ c_idxs :
                        Cardinality({m \in DOMAIN labels \ c_idxs : m < j}) = i - 1]]

\* "key = int(l) if is_int_like(l) else str(l)"; str(None) is "None"
KeyOf(l) ==
    IF is_int_like(l) THEN [kind |-> "int", v |-> IntOf(l)]
    ELSE [kind |-> "str", v |-> 0]

\* "base = (max(ints) + 1) if ints else 0"
BaseOf(existing_labels_outside_cluster) ==
    LET ints == {IntOf(existing_labels_outside_cluster[i]) :
                    i \in {j \in DOMAIN existing_labels_outside_cluster :
                              is_int_like(existing_labels_outside_cluster[j])}}
    IN  IF ints = {} THEN 0
        ELSE (CHOOSE m \in ints : \A n \in ints : n <= m) + 1

RECURSIVE RemapLoop(_, _, _, _)
\* the loop of lines 48-58 over the labels still to map
RemapLoop(labels, remap_so_far, next_label, mapped) ==
    IF labels = <<>> THEN [mapped |-> mapped, remap |-> remap_so_far]
    ELSE LET key == KeyOf(Head(labels))
         IN  IF key = [kind |-> "int", v |-> -1]
             THEN RemapLoop(Tail(labels), remap_so_far, next_label,
                            Append(mapped, -1))
             ELSE IF key \notin DOMAIN remap_so_far
             THEN RemapLoop(Tail(labels), DictPut(remap_so_far, key, next_label),
                            next_label + 1, Append(mapped, next_label))
             ELSE RemapLoop(Tail(labels), remap_so_far, next_label,
                            Append(mapped, remap_so_far[key]))

\* variant: the new labels counted from 0 whatever the labels outside
remap_labels_from_zero(existing_labels_outside_cluster, recluster_labels) ==
    RemapLoop(recluster_labels, EmptyDict, 0, <<>>)

remap_labels_away_from(existing_labels_outside_cluster, recluster_labels) ==
    RemapLoop(recluster_labels, EmptyDict,
              BaseOf(existing_labels_outside_cluster), <<>>)

\* lines 59-72: both files loaded and validated
InitMerge ==
    /\ m_pc = "loaded"
    /\ full_labels \in UNION {[1..n -> FullLabelValues] : n \in 0..MaxLabels}
    /\ recl_labels \in UNION {[1..n -> ReclLabelValues] : n \in 0..MaxLabels}
    /\ mapped_re_labels = <<>> /\ remap = EmptyDict
    /\ PipelineIdle /\ QualityIdle /\ SilhouetteIdle /\ ClassifyIdle
    /\ CasesIdle

\* lines 74-75
NormalizeLabels ==
    /\ m_pc = "loaded"
    /\ full_labels' = normalize_labels(full_labels)
    /\ recl_labels' = normalize_labels(recl_labels)
    /\ m_pc' = "normalized"
    /\ UNCHANGED <<mapped_re_labels, remap, pvars, qvars, svars, cvars, tvars>>

\* lines 78-82
RemapLabels ==
    /\ m_pc = "normalized"
    /\ LET r == remap_labels_away_from(NonClusterLabels(full_labels), recl_labels)
       IN  mapped_re_labels' = r.mapped /\ remap' = r.remap
    /\ m_pc' = "remapped"
    /\ UNCHANGED <<full_labels, recl_labels, pvars, qvars, svars, cvars, tvars>>

NextMerge == NormalizeLabels \/ RemapLabels

SpecMerge == InitMerge /\ [][NextMerge]_vars

\* the integer labels outside the replaced cluster, at the call of line 82
OutsideInts ==
    LET outside == NonClusterLabels(full_labels)
    IN  {IntOf(outside[i]) : i \in {j \in DOMAIN outside : is_int_like(outside[j])}}

NoiseLabel == [kind |-> "int", v |-> -1]

\* C29 as stated: every re-cluster label other than -1 gets an integer above
\* every integer label outside the replaced cluster, two labels get the same
\* output exactly when they are equal, and -1 stays -1.
C29_DistinctLabelsDistinctOutputs ==
    m_pc = "remapped" =>
        /\ \A i \in DOMAIN recl_labels :
            IF recl_labels[i] = NoiseLabel THEN mapped_re_labels[i] = -1
            ELSE \A n \in OutsideInts : mapped_re_labels[i] > n
        /\ \A i, j \in DOMAIN recl_labels :
            recl_labels[i] = recl_labels[j]
                <=> mapped_re_labels[i] = mapped_re_labels[j]

\* C29, amended: the labels are told apart by their key (int(l), or str(l)
\* when int() rejects l). Key -1 stays -1; every other key gets an integer
\* that is at least base and above every integer label outside the replaced
\* cluster; two such labels get the same output exactly when their keys are
\* equal; and when base >= 0 no other key is mapped to -1.
C29_RemapByKey ==
    m_pc = "remapped" =>
        LET base == BaseOf(NonClusterLabels(full_labels))
            IsNoise(i) == KeyOf(recl_labels[i]) = NoiseLabel
        IN  /\ Len(mapped_re_labels) = Len(recl_labels)
            /\ \A i \in DOMAIN recl_labels :
                IF IsNoise(i) THEN mapped_re_labels[i] = -1
                ELSE /\ mapped_re_labels[i] >= base
                     /\ \A n \in OutsideInts : mapped_re_labels[i] > n
                     /\ remap[KeyOf(recl_labels[i])] = mapped_re_labels[i]
            /\ \A i, j \in DOMAIN recl_labels :
                (~IsNoise(i) /\ ~IsNoise(j)) =>
                    (KeyOf(recl_labels[i]) = KeyOf(recl_labels[j])
                        <=> mapped_re_labels[i] = mapped_re_labels[j])
            /\ base >= 0 =>
                \A i \in DOMAIN recl_labels :
                    IsNoise(i) <=> mapped_re_labels[i] = -1

\* labels 3 and 4 in the full file, two different labels in the re-clustered
\* file: they become 5 and 6
C29_Witness ==
    /\ m_pc = "remapped"
    /\ full_labels = << [kind |-> "int", v |-> CLUSTER_VALUE], [kind |-> "int", v |-> 4] >>
    /\ recl_labels = << [kind |-> "int", v |-> 0], [kind |-> "int", v |-> 1] >>
    /\ mapped_re_labels = <<5, 6>>

----------------------------------------------------------------------------
(* src/categorize_problem_cluster_cases.py: main() classifying every case    *)
(* of the input (SpecCases)                                                  *)

\* "max_retries = 5" of get_raw_response
RawMaxRetries == 5

\* most cases of an input file
MaxTitles == 2

\* the input object: distinct titles, in file order
CaseFiles ==
    LET titles == <<"case 1", "case 2", "case 3">>
    IN  {[i \in 1..n |-> titles[i]] : n \in 0..Min(MaxTitles, Len(titles))}

\* variant: the attempts counted from 1
SleepTimeFromOne(a) == (2 ^ (a + 1)) + 5
\* "sleep_time = (2 ** attempt) + 5"
SleepTime(a) == (2 ^ a) + 5

\* the value stored for a title: the parsed result, or {"error": str(e)}
Entry(kind, msg) == [kind |-> kind, msg |-> msg]

\* "case_to_categories[title] = ..." and the next iteration of the loop
StoreAndContinue(entry) ==
    /\ case_to_categories' = DictPut(case_to_categories, cases[t_idx], entry)
    /\ t_idx' = t_idx + 1
    /\ t_pc' = "loop"

InitCases ==
    /\ t_pc = "loop"
    /\ cases \in CaseFiles
    /\ t_idx = 1 /\ request = 0 /\ t_attempt = 0 /\ t_calls = 0
    /\ t_sleeps = <<>> /\ case_to_categories = EmptyDict
    /\ PipelineIdle /\ QualityIdle /\ SilhouetteIdle /\ ClassifyIdle
    /\ MergeIdle

\* classify_text up to its first get_raw_response: the prompt is built and
\* otherkey.txt is read, either of which may raise before any call
ClassifyText ==
    /\ t_pc = "loop" /\ t_idx <= Len(cases)
    /\ t_attempt' = 0 /\ t_calls' = 0 /\ t_sleeps' = <<>>
    /\ \/ /\ request' = 1 /\ t_pc' = "request"
          /\ UNCHANGED <<t_idx, case_to_categories>>
       \/ /\ request' = 0
          /\ StoreAndContinue(Entry("error", "raised before the call"))
    /\ UNCHANGED <<cases, pvars, qvars, svars, cvars, mvars>>

\* one pass of the loop of get_raw_response, with what follows its return or
\* its exception in classify_text and main; a reply that parse_output rejects
\* starts the second get_raw_response of classify_text
RawAttempt ==
    /\ t_pc = "request"
    /\ \E outcome \in {"content", "unparsable", "rate limit", "other error"} :
        /\ t_calls' = IF outcome = "unparsable" /\ request = 1
                      THEN 0 ELSE t_calls + 1
        /\ CASE outcome = "content" ->
                   /\ StoreAndContinue(Entry("result", ""))
                   /\ UNCHANGED <<request, t_attempt, t_sleeps>>
             [] outcome = "unparsable" /\ request = 1 ->
                   /\ request' = 2 /\ t_attempt' = 0 /\ t_sleeps' = <<>>
                   /\ UNCHANGED <<t_idx, t_pc, case_to_categories>>
             [] outcome = "unparsable" /\ request = 2 ->
                   /\ StoreAndContinue(Entry("error", "parse_output raised"))
                   /\ UNCHANGED <<request, t_attempt, t_sleeps>>
             [] outcome = "rate limit" ->
                   /\ t_sleeps' = Append(t_sleeps, SleepTime(t_attempt))
                   /\ t_attempt' = t_attempt + 1
                   /\ IF t_attempt + 1 = RawMaxRetries
                      THEN StoreAndContinue(Entry("error", "Max retries exceeded"))
                      ELSE UNCHANGED <<t_idx, t_pc, case_to_categories>>
                   /\ UNCHANGED request
             [] outcome = "other error" ->
                   /\ StoreAndContinue(Entry("error", "other error"))
                   /\ UNCHANGED <<request, t_attempt, t_sleeps>>
    /\ UNCHANGED <<cases, pvars, qvars, svars, cvars, mvars>>

\* lines 173-174: categorized_cases.json written
WriteOutput ==
    /\ t_pc = "loop" /\ t_idx > Len(cases)
    /\ t_pc' = "done"
    /\ UNCHANGED <<cases, t_idx, request, t_attempt, t_calls, t_sleeps,
                   case_to_categories, pvars, qvars, svars, cvars, mvars>>

NextCases == ClassifyText \/ RawAttempt \/ WriteOutput

SpecCases == InitCases /\ [][NextCases]_vars

\* C30: a get_raw_response call issues at most 5 annotator calls; every call
\* but its last was rate-limited and followed by a sleep of 2^attempt + 5
\* seconds; any other error ends it at once; "Max retries exceeded" is raised
\* only after five rate-limited calls; and main stores one entry for each
\* title it has gone through, so the output has exactly one entry per title.
C30_AtMostFiveCallsOneEntryPerTitle ==
    /\ t_calls <= RawMaxRetries
    /\ \A i \in DOMAIN t_sleeps : t_sleeps[i] = (2 ^ (i - 1)) + 5
    /\ t_pc = "request" => t_calls = Len(t_sleeps) /\ t_calls < RawMaxRetries
    /\ (t_pc = "loop" /\ t_idx > 1) =>
        LET entry == case_to_categories[cases[t_idx - 1]]
        IN  /\ entry = Entry("error", "Max retries exceeded") <=>
                    (t_calls = RawMaxRetries /\ Len(t_sleeps) = RawMaxRetries)
            /\ entry = Entry("error", "other error") =>
                    Len(t_sleeps) = t_calls - 1
            /\ entry = Entry("result", "") => Len(t_sleeps) = t_calls - 1
    /\ DOMAIN case_to_categories = {cases[i] : i \in 1..(t_idx - 1)}
    /\ t_pc = "done" => DOMAIN case_to_categories = Range(cases)

\* the first case ran out of retries, the second was classified after one
\* rate limit, and the output was written with both
C30_Witness ==
    /\ t_pc = "done" /\ Len(cases) = 2
    /\ case_to_categories[cases[1]] = Entry("error", "Max retries exceeded")
    /\ case_to_categories[cases[2]] = Entry("result", "")
    /\ t_calls = 2 /\ t_sleeps = <<6>>

====
